---- MODULE Spec2Model ----
(***************************************************************************)
(* Rosa conversational backend: the tool-call protocol of CTBTOAgent       *)
(* (Agent1.py), the Card Decision Engine (ui_intelligence_agent.py) and    *)
(* the Turn Coordinator with its background card task                      *)
(* (rosa_pattern1_api.py), and the Knowledge Provider adapter              *)
(* (vector_search_tool.py).                                                *)
(*                                                                         *)
(* Python values are modelled as follows.  A dict is a TLA+ record whose   *)
(* DOMAIN is the set of keys the dict holds, so d.get(k, default) is       *)
(* Get(d, k, default).  None is the token None.  A text is a sequence of   *)
(* tokens (concatenation is \o); the text None is NoneText.  A raised      *)
(* exception is the record Raise(e).                                       *)
(***************************************************************************)
EXTENDS Integers, Sequences, FiniteSets, TLC

VARIABLES
    \* ---- CTBTOAgent.process_with_functions (Agent1.py:600-681) ----
    pwf_pc,          \* position in process_with_functions
    pwf_calls,       \* number of chat.completions.create calls made by the turn
    pwf_message,     \* response.choices[0].message of the model call
    pwf_results,     \* function_results
    pwf_env,         \* provider outcome met by each executed tool call (history)
    pwf_ret,         \* the returned dict
    \* ---- UIIntelligenceAgent.analyze_conversation_for_cards ----
    cd_pc,           \* "start" before the call, "returned" or "raised" after it
    cd_rag,          \* rag_results passed into the call
    cd_response,     \* what the model call of the invocation answers
    cd_out,          \* the list of CardDecision returned
    cd_raised,       \* the exception that left the call, None when it returned
    cd_calls,        \* model calls made by the invocation
    cd_memory,       \* self.conversation_memory of the agent instance
    \* ---- one turn of chat_completions.generate (rosa_pattern1_api.py) ----
    request_session_id,    \* session_id of the request headers, or None
    gen_pc,                \* position of generate()
    eng_pc,                \* position of the Conversation Engine's generator
    model_calls,           \* model calls made by the Conversation Engine in the turn
    turn_tool_calls,       \* tool_calls of the first model call
    tool_results,          \* tool results appended to the message history
    first_output,          \* what the first model call answered (history)
    stream_rest,           \* deltas the streaming call in progress has still to deliver
    stream_fails,          \* whether that call raises once they are delivered
    emitted,               \* events yielded by generate() so far
    session_weather_data,  \* rosa_backend.session_weather_data
    latest_weather_data,   \* rosa_backend.latest_weather_data
    session_rag_data,      \* rosa_backend.session_rag_data
    card_tasks,            \* background card tasks scheduled by the turn
    caught_log,            \* failures caught and printed by the card path
    response_path_exception,  \* exception that left a callback into the turn
    engine_errors,         \* model calls that raised inside the engine (history)
    outer_error,           \* exception caught by the handler of generate() at line 506
    last_poll,             \* the last poll of a card endpoint and what it returned
    \* ---- one call of VectorSearchTool (vector_search_tool.py) ----
    vs_pc,           \* "start" before the call, "done" after it
    vs_call,         \* the method called, its arguments, what the provider answers
    vs_out,          \* what the call handed to its caller
    \* ---- threads writing the Session State Store concurrently ----
    st_threads,      \* the threads: their position, session id and what they write
    \* ---- the head of chat_completions.generate (rosa_pattern1_api.py:332-344) ----
    rq_pc,                 \* "start" before the extraction, "extracted" after it
    messages,              \* the message list of the request
    user_message,          \* user_message handed to the Conversation Engine
    conversation_history,  \* conversation_history handed to the Conversation Engine
    \* ---- the backend process and its warmup (rosa_pattern1_api.py:224-243) ----
    wu_pc,                 \* "boot" before the script has started the server, then "serving"
    warmed_up,             \* the module flag _warmed_up
    wu_log                 \* one record per start and per request (history)

pwfVars == <<pwf_pc, pwf_calls, pwf_message, pwf_results, pwf_env, pwf_ret>>

cdVars == <<cd_pc, cd_rag, cd_response, cd_out, cd_raised, cd_calls, cd_memory>>

turnVars ==
    <<request_session_id, gen_pc, eng_pc, model_calls, turn_tool_calls, tool_results,
      first_output,
      stream_rest, stream_fails, emitted, session_weather_data, latest_weather_data,
      session_rag_data, card_tasks, caught_log, response_path_exception,
      engine_errors, outer_error, last_poll>>

vsVars == <<vs_pc, vs_call, vs_out>>

stVars == <<st_threads>>

rqVars == <<rq_pc, messages, user_message, conversation_history>>

wuVars == <<wu_pc, warmed_up, wu_log>>

vars == <<pwfVars, cdVars, turnVars, vsVars, stVars, rqVars, wuVars>>

----------------------------------------------------------------------------
\* Bounds of the model

MaxToolCalls == 2     \* tool calls in one model response
MaxModelCalls == 3    \* cap on the model-call counter of one turn
MaxSessions == 2      \* session matches in one retrieval result
MaxCards == 2         \* cards proposed by one model decision
MaxRecords == 6       \* decisions one agent instance records for one session
MaxMessages == 3      \* messages of one request
MaxRequests == 3      \* requests one backend process serves

----------------------------------------------------------------------------
\* Python helpers

None == "<None>"
NoneText == <<None>>
EmptyDict == [k \in {} |-> None]

Get(d, k, default) == IF k \in DOMAIN d THEN d[k] ELSE default

\* truthiness of a str-or-None value
Truthy(x) == x # None /\ x # ""

\* a or b
Or(a, b) == IF Truthy(a) THEN a ELSE b

Raise(e) == [raised |-> e]
IsRaise(v) == "raised" \in DOMAIN v

RECURSIVE SeqsUpTo(_, _)
SeqsUpTo(S, n) ==
    IF n = 0 THEN {<<>>}
    ELSE LET shorter == SeqsUpTo(S, n - 1)
         IN  shorter \cup {Append(s, x) : s \in {t \in shorter : Len(t) = n - 1}, x \in S}

----------------------------------------------------------------------------
\* Weather Provider (external) as seen by get_weather

WeatherOutcomes ==
    {"no_key", "timeout", "connection_error", "http_400", "http_500", "bad_body",
     "ok_vienna_cold_rain", "ok_vienna_mild", "ok_paris"}

\* the body of a 200 answer of api.weatherapi.com
WeatherBody(outcome) ==
    CASE outcome = "ok_vienna_cold_rain" ->
            [name |-> "Vienna", country |-> "Austria", temp_c |-> 5, text |-> "light rain"]
      [] outcome = "ok_vienna_mild" ->
            [name |-> "Vienna", country |-> "Austria", temp_c |-> 18, text |-> "cloudy"]
      [] OTHER ->
            [name |-> "Paris", country |-> "France", temp_c |-> 30, text |-> "sunny"]

\* Agent1.py:176-207
get_conference_weather_advice(current) ==
    LET \* 'rain' in condition, 'snow' in condition, 'clear' or 'sunny' in
        \* condition, for the condition texts of WeatherBody
        HasRain(text) == text = "light rain"
        HasSnow(text) == FALSE
        HasClearOrSunny(text) == text = "sunny"
        tempAdvice ==
            IF current.temp_c < 0 THEN <<"Very cold">>
            ELSE IF current.temp_c < 10 THEN <<"Cold">>
            ELSE IF current.temp_c > 25 THEN <<"Warm">>
            ELSE <<>>
        condAdvice ==
            IF HasRain(current.text) THEN <<"Rain expected">>
            ELSE IF HasSnow(current.text) THEN <<"Snow conditions">>
            ELSE IF HasClearOrSunny(current.text) THEN <<"Clear conditions">>
            ELSE <<>>
        advice == tempAdvice \o condAdvice
    IN  IF advice # <<>> THEN advice[1] ELSE "Pleasant conditions"

\* Agent1.py:209-286.  location is a str or None; outcome is what the
\* environment does (API key configured or not, what the provider answers).
get_weather(location, outcome) ==
    IF outcome = "no_key" THEN
        [error |-> "Weather API key not configured",
         message |-> "Unable to fetch weather information at this time."]
    ELSE IF outcome \in {"timeout", "connection_error"} THEN
        \* requests.RequestException
        [error |-> "Network error", message |-> outcome]
    ELSE IF outcome = "http_400" THEN
        [error |-> "Invalid location",
         message |-> "Please provide a valid city name, postal code, or coordinates.",
         suggestion |-> "Try: Vienna, New York, or coordinates like 48.2082,16.3738"]
    ELSE IF outcome = "http_500" THEN
        [error |-> "Weather service temporarily unavailable",
         message |-> "Unable to fetch weather information at this time."]
    ELSE IF outcome = "bad_body" THEN
        \* data['location'] raises KeyError, caught by except Exception
        [error |-> "Unexpected error", message |-> "KeyError"]
    ELSE
        LET data == WeatherBody(outcome)
            requested_location == Or(location, "Vienna, Austria")
            is_vienna_conference == data.name = "Vienna"
            weather_data ==
                [location |-> <<data.name, data.country>>,
                 requested |-> requested_location,
                 temperature |-> [celsius |-> data.temp_c],
                 condition |-> data.text,
                 isConferenceLocation |-> is_vienna_conference]
        IN  IF is_vienna_conference
            THEN [k \in DOMAIN weather_data \cup {"conferenceWeatherAdvice"} |->
                    IF k = "conferenceWeatherAdvice"
                    THEN get_conference_weather_advice(data)
                    ELSE weather_data[k]]
            ELSE weather_data

----------------------------------------------------------------------------
\* Conference lookups (conference_data.py tables) as seen by the agent

LookupOutcomes == {"one", "many", "none", "raise"}

\* Agent1.py:289-374
get_speaker_info(speaker_name, speaker_id, topic, lookup) ==
    IF lookup = "raise" /\ (Truthy(speaker_id) \/ Truthy(speaker_name) \/ Truthy(topic)) THEN
        [success |-> FALSE, error |-> "Service error", message |-> "exception"]
    ELSE IF Truthy(speaker_id) THEN
        IF lookup \in {"one", "many"}
        THEN [success |-> TRUE, type |-> "speaker_info", message |-> speaker_id]
        ELSE [success |-> FALSE, error |-> "Speaker not found", message |-> speaker_id]
    ELSE IF Truthy(speaker_name) THEN
        IF lookup = "one"
        THEN [success |-> TRUE, type |-> "speaker_info", message |-> speaker_name]
        ELSE IF lookup = "many"
        THEN [success |-> TRUE, type |-> "speaker_search", message |-> speaker_name]
        ELSE [success |-> FALSE, error |-> "Speaker not found", message |-> speaker_name]
    ELSE IF Truthy(topic) THEN
        IF lookup \in {"one", "many"}
        THEN [success |-> TRUE, type |-> "speaker_search", message |-> topic]
        ELSE [success |-> FALSE, error |-> "No speakers found", message |-> topic]
    ELSE
        [success |-> TRUE, type |-> "speaker_overview", message |-> "overview"]

\* Agent1.py:376-439
get_session_info(session_id, topic, time_filter, lookup) ==
    IF lookup = "raise" THEN
        [success |-> FALSE, error |-> "Service error", message |-> "exception"]
    ELSE IF Truthy(session_id) THEN
        IF lookup \in {"one", "many"}
        THEN [success |-> TRUE, type |-> "session_info", message |-> session_id]
        ELSE [success |-> FALSE, error |-> "Session not found", message |-> session_id]
    ELSE IF Truthy(topic) THEN
        IF lookup \in {"one", "many"}
        THEN [success |-> TRUE, type |-> "session_search", message |-> topic]
        ELSE [success |-> FALSE, error |-> "No sessions found", message |-> topic]
    ELSE
        [success |-> TRUE, type |-> "session_schedule", time_filter |-> time_filter,
         message |-> time_filter]

\* Agent1.py:441-464
get_conference_schedule(lookup) ==
    IF lookup = "raise"
    THEN [success |-> FALSE, error |-> "Service error", message |-> "exception"]
    ELSE [success |-> TRUE, type |-> "conference_schedule", message |-> "schedule"]

----------------------------------------------------------------------------
\* Tool calls as the language model emits them

FunctionNames ==
    {"get_weather", "get_speaker_info", "get_session_info", "get_conference_schedule"}

\* tool_call.function.arguments: always a str, not always JSON, not always a dict
RawArguments == {"{\"location\": \"Paris\"}", "{\"topic\": \"seismic\"}", "{}", "[]", "{\"location\": "}

\* json.loads(raw): a dict, another JSON value, or JSONDecodeError
json_loads(raw) ==
    CASE raw = "{\"location\": \"Paris\"}" -> [t |-> "dict", v |-> [location |-> "Paris"]]
      [] raw = "{\"topic\": \"seismic\"}" -> [t |-> "dict", v |-> [topic |-> "seismic"]]
      [] raw = "{}" -> [t |-> "dict", v |-> EmptyDict]
      [] raw = "[]" -> [t |-> "list", v |-> EmptyDict]
      [] OTHER -> Raise("JSONDecodeError")

\* what each adapter can meet in its environment
EnvOutcomes(name) ==
    IF name = "get_weather" THEN WeatherOutcomes
    ELSE IF name \in FunctionNames THEN LookupOutcomes
    ELSE {"n/a"}

\* Agent1.py:565-591, the body of the try block of execute_function_call
dispatch_function(function_name, arguments, env) ==
    IF function_name = "get_conference_schedule" THEN get_conference_schedule(env)
    ELSE IF function_name \notin FunctionNames THEN
        [success |-> FALSE, error |-> "Unknown function", message |-> function_name]
    ELSE IF arguments.t # "dict" THEN Raise("AttributeError")
    ELSE IF function_name = "get_weather" THEN
        get_weather(Get(arguments.v, "location", None), env)
    ELSE IF function_name = "get_speaker_info" THEN
        get_speaker_info(Get(arguments.v, "speaker_name", None),
                         Get(arguments.v, "speaker_id", None),
                         Get(arguments.v, "topic", None), env)
    ELSE
        get_session_info(Get(arguments.v, "session_id", None),
                         Get(arguments.v, "topic", None),
                         Get(arguments.v, "time_filter", "all"), env)

\* the same dispatcher with the try/except of lines 564 and 593 left out
execute_function_call_unguarded(function_name, arguments, env) ==
    dispatch_function(function_name, arguments, env)

\* Agent1.py:553-598
execute_function_call(function_name, arguments, env) ==
    LET r == dispatch_function(function_name, arguments, env)
    IN  IF IsRaise(r)
        THEN [success |-> FALSE, error |-> "Execution error", message |-> r.raised]
        ELSE r

----------------------------------------------------------------------------
\* CTBTOAgent.process_with_functions

CallId(i) == IF i = 1 THEN "call_1" ELSE IF i = 2 THEN "call_2" ELSE "call_3"

\* (function name, raw arguments) of a tool call: every name with well-formed,
\* empty, non-dict and undecodable arguments
ToolCallShapes ==
    ({"get_weather"} \X RawArguments)
    \cup ({"get_speaker_info"} \X {"{\"topic\": \"seismic\"}", "{}", "[]"})
    \cup ({"get_session_info"} \X {"{\"topic\": \"seismic\"}", "{}", "{\"location\": "})
    \cup ({"get_conference_schedule"} \X {"{}", "[]"})
    \cup ({"get_stock_price"} \X {"{}"})

\* the tool_calls a model response can carry: position i has id CallId(i)
ToolCallLists ==
    LET shapes == SeqsUpTo(ToolCallShapes, MaxToolCalls)
    IN  {[i \in 1..Len(s) |-> [id |-> CallId(i), name |-> s[i][1], arguments |-> s[i][2]]] :
            s \in shapes}

PwfContents == {NoneText, <<"a">>}

\* Agent1.py:645-647
parse_arguments(raw) ==
    LET a == json_loads(raw)
    IN  IF IsRaise(a) THEN [t |-> "dict", v |-> EmptyDict] ELSE a

\* Agent1.py:651-655, the entry appended to function_results
function_result_entry(tool_call, arguments, function_result) ==
    [function |-> tool_call.name, arguments |-> arguments, result |-> function_result]

\* Agent1.py:657-662: after the loop over the tool calls the method returns
pwf_after_tools_again == "start"

pwf_after_tools == "return"

\* Agent1.py:673-681
pwf_error_return(e) ==
    [type |-> "error", response |-> <<"I apologize, but I encountered an error", e>>,
     function_calls |-> <<>>, error |-> e]

\* the part of the state an operation of another component leaves alone
\* no turn of generate() in progress
\* no thread writing the store outside a turn
StoreIdle == st_threads = <<>>

\* no request whose message list is being split
RequestIdle == rq_pc = "idle" /\ messages = <<>> /\ user_message = "" /\ conversation_history = <<>>

\* no backend process is looked at
WarmupIdle == wu_pc = "idle" /\ warmed_up = FALSE /\ wu_log = <<>>

SearchIdle ==
    /\ vs_pc = "idle"
    /\ vs_call = [method |-> "none"]
    /\ vs_out = [raised |-> None]

TurnIdle ==
    /\ request_session_id = None
    /\ gen_pc = "idle"
    /\ eng_pc = "idle"
    /\ model_calls = 0
    /\ turn_tool_calls = <<>>
    /\ tool_results = <<>>
    /\ first_output = [kind |-> "none"]
    /\ stream_rest = <<>>
    /\ stream_fails = FALSE
    /\ emitted = <<>>
    /\ session_weather_data = EmptyDict
    /\ latest_weather_data = EmptyDict   \* None: falsy, as the empty dict is
    /\ session_rag_data = EmptyDict
    /\ card_tasks = <<>>
    /\ caught_log = {}
    /\ response_path_exception = None
    /\ engine_errors = 0
    /\ outer_error = None
    /\ last_poll = [kind |-> "none"]

CdIdle ==
    /\ cd_pc = "idle"
    /\ cd_rag = EmptyDict
    /\ cd_response = [kind |-> "none"]
    /\ cd_out = <<>>
    /\ cd_raised = None
    /\ cd_calls = 0
    /\ cd_memory = EmptyDict

InitPwf ==
    /\ pwf_pc = "start"
    /\ pwf_calls = 0
    /\ pwf_message = [content |-> NoneText, tool_calls |-> <<>>]
    /\ pwf_results = <<>>
    /\ pwf_env = <<>>
    /\ pwf_ret = [type |-> "none"]
    /\ CdIdle /\ TurnIdle /\ SearchIdle /\ StoreIdle /\ RequestIdle /\ WarmupIdle

\* Agent1.py:626-633 raising, caught at 673
pwf_model_raises ==
    /\ pwf_pc = "start"
    /\ pwf_calls < MaxModelCalls
    /\ pwf_calls' = pwf_calls + 1
    /\ pwf_ret' = pwf_error_return("APIError")
    /\ pwf_pc' = "done"
    /\ UNCHANGED <<pwf_message, pwf_results, pwf_env>>

\* Agent1.py:626-638 and 664-671
pwf_model_answers ==
    /\ pwf_pc = "start"
    /\ pwf_calls < MaxModelCalls
    /\ \E content \in PwfContents, tool_calls \in ToolCallLists :
        /\ pwf_calls' = pwf_calls + 1
        /\ pwf_message' = [content |-> content, tool_calls |-> tool_calls]
        /\ pwf_results' = <<>>
        /\ pwf_env' = <<>>
        /\ IF tool_calls # <<>>
           THEN /\ pwf_pc' = "tools"
                /\ UNCHANGED pwf_ret
           ELSE /\ pwf_pc' = "done"
                /\ pwf_ret' = [type |-> "text_response", response |-> content,
                               function_calls |-> <<>>]

\* Agent1.py:642-655, one iteration of the loop
pwf_execute_tool ==
    /\ pwf_pc = "tools"
    /\ Len(pwf_results) < Len(pwf_message.tool_calls)
    /\ LET tool_call == pwf_message.tool_calls[Len(pwf_results) + 1]
           arguments == parse_arguments(tool_call.arguments)
       IN  \E env \in EnvOutcomes(tool_call.name) :
            LET function_result == execute_function_call(tool_call.name, arguments, env)
            IN  IF IsRaise(function_result)
                THEN \* propagates to the except of line 673
                     /\ pwf_ret' = pwf_error_return(function_result.raised)
                     /\ pwf_pc' = "done"
                     /\ pwf_env' = Append(pwf_env, env)
                     /\ UNCHANGED pwf_results
                ELSE /\ pwf_results' =
                          Append(pwf_results,
                                 function_result_entry(tool_call, arguments, function_result))
                     /\ pwf_env' = Append(pwf_env, env)
                     /\ UNCHANGED <<pwf_pc, pwf_ret>>
    /\ UNCHANGED <<pwf_calls, pwf_message>>

\* Agent1.py:657-662
pwf_return_function_calls ==
    /\ pwf_pc = "tools"
    /\ Len(pwf_results) = Len(pwf_message.tool_calls)
    /\ IF pwf_after_tools = "return"
       THEN /\ pwf_pc' = "done"
            /\ pwf_ret' = [type |-> "function_calls",
                           response |-> (IF pwf_message.content = NoneText THEN <<>>
                                         ELSE pwf_message.content),
                           function_calls |-> pwf_results]
       ELSE /\ pwf_pc' = pwf_after_tools
            /\ UNCHANGED pwf_ret
    /\ UNCHANGED <<pwf_calls, pwf_message, pwf_results, pwf_env>>

NextPwf ==
    \/ pwf_model_raises /\ UNCHANGED <<cdVars, turnVars, vsVars, stVars, rqVars, wuVars>>
    \/ pwf_model_answers /\ UNCHANGED <<cdVars, turnVars, vsVars, stVars, rqVars, wuVars>>
    \/ pwf_execute_tool /\ UNCHANGED <<cdVars, turnVars, vsVars, stVars, rqVars, wuVars>>
    \/ pwf_return_function_calls /\ UNCHANGED <<cdVars, turnVars, vsVars, stVars, rqVars, wuVars>>

SpecPwf == InitPwf /\ [][NextPwf]_vars

----------------------------------------------------------------------------
\* Claims about process_with_functions, execute_function_call and get_weather

PwfReturnedFunctionCalls == pwf_pc = "done" /\ pwf_ret.type = "function_calls"

\* C1: in a turn whose first model call returns tool calls, exactly two model
\* calls are made and the history of the second holds one tool result per
\* tool call, each tagged with the tool_call_id of its call.
C1_TwoCallsTaggedResults ==
    PwfReturnedFunctionCalls =>
        /\ pwf_calls = 2
        /\ Len(pwf_ret.function_calls) = Len(pwf_message.tool_calls)
        /\ \A i \in 1..Len(pwf_ret.function_calls) :
            Get(pwf_ret.function_calls[i], "tool_call_id", None) = pwf_message.tool_calls[i].id

\* C3: a turn performs at most one round of tool calls: tools are executed only
\* for the tool calls of the first model response, each at most once, and no
\* third model call is made.
C3_OneToolRound ==
    /\ pwf_calls <= 2
    /\ pwf_pc = "tools" => pwf_calls = 1
    /\ Len(pwf_results) <= Len(pwf_message.tool_calls)
    /\ PwfReturnedFunctionCalls =>
        /\ pwf_calls = 1
        /\ Len(pwf_ret.function_calls) = Len(pwf_message.tool_calls)

C3_Witness ==
    /\ PwfReturnedFunctionCalls
    /\ Len(pwf_ret.function_calls) >= 2
    /\ pwf_calls = 1

\* the get_weather results of the turn: the tool calls dispatched to get_weather
WeatherEntries ==
    {i \in 1..Len(pwf_results) :
        pwf_results[i].function = "get_weather" /\ pwf_results[i].arguments.t = "dict"}

\* C9: the weather lookup never raises, and the value it returns carries an
\* explicit success/failure field, for every provider outcome.
C9_WeatherSuccessField ==
    \A i \in WeatherEntries :
        /\ ~IsRaise(pwf_results[i].result)
        /\ "success" \in DOMAIN pwf_results[i].result

OkWeatherOutcomes == {"ok_vienna_cold_rain", "ok_vienna_mild", "ok_paris"}

\* the tool call is unknown, or its adapter met a failure
ToolFailure(name, arguments, env) ==
    \/ name \notin FunctionNames
    \/ name # "get_conference_schedule" /\ arguments.t # "dict"
    \/ name = "get_weather" /\ env \notin OkWeatherOutcomes
    \/ name \in {"get_session_info", "get_conference_schedule"} /\ env = "raise"

\* C10: tool execution never aborts the turn: every tool call yields exactly one
\* result object, a structured failure payload when the tool fails or is
\* unknown, and nothing is raised.
C10_OneResultPerToolCall ==
    /\ pwf_ret.type = "error" => pwf_env = <<>>
    /\ Len(pwf_env) = Len(pwf_results)
    /\ \A i \in 1..Len(pwf_results) :
        /\ pwf_results[i].function = pwf_message.tool_calls[i].name
        /\ ~IsRaise(pwf_results[i].result)
        /\ ToolFailure(pwf_results[i].function, pwf_results[i].arguments, pwf_env[i])
            => "error" \in DOMAIN pwf_results[i].result
    /\ PwfReturnedFunctionCalls =>
        Len(pwf_ret.function_calls) = Len(pwf_message.tool_calls)

C10_Witness ==
    /\ PwfReturnedFunctionCalls
    /\ \E i, j \in 1..Len(pwf_ret.function_calls) :
        /\ Get(pwf_ret.function_calls[i].result, "error", None) = "Execution error"
        /\ Get(pwf_ret.function_calls[j].result, "error", None) = "Unknown function"

\* the executed tool calls whose arguments json.loads cannot decode
UndecodableEntries ==
    {i \in 1..Len(pwf_results) : IsRaise(json_loads(pwf_message.tool_calls[i].arguments))}

\* C18: the result recorded for a tool call whose arguments are not valid
\* JSON is a structured failure: it is no exception, and its success field
\* is false.
C18_MalformedArgumentsFail ==
    \A i \in UndecodableEntries :
        /\ ~IsRaise(pwf_results[i].result)
        /\ Get(pwf_results[i].result, "success", FALSE) = FALSE

----------------------------------------------------------------------------
\* Card Decision Engine: UIIntelligenceAgent (ui_intelligence_agent.py)
\*
\* A text that the code lower-cases or searches is a sequence of one-character
\* strings.  A relevance score or confidence is a percentage (95 is 0.95).

\* a datetime property of a Weaviate object: a value json.dumps cannot serialise
DateTimeValue == "<datetime>"

\* session matches a retrieval result can hold (vector_search_tool.py:157-172)
SessionS1 ==
    [id |-> "uuid-1", title |-> "Quantum keynote", relevance_score |-> 95,
     metadata |-> [session_id |-> "session-1", speakers |-> <<"Chen">>,
                   theme |-> <<"Q", "s">>]]

SessionS2 ==
    [id |-> "uuid-2", title |-> "Radionuclide panel", relevance_score |-> 40,
     metadata |-> [session_id |-> "session-2", speakers |-> <<"Volkov", "Chen">>,
                   theme |-> <<"R", "q">>]]

\* a match without speakers and theme.  Every session of a retrieval result
\* has a session_id (vector_search_tool.py:439).
SessionS3 ==
    [id |-> "uuid-3", title |-> "Untitled session", relevance_score |-> 60,
     metadata |-> [session_id |-> "session-3"]]

\* a match whose metadata holds a datetime property
SessionDated ==
    [id |-> "uuid-4", title |-> "Dated session", relevance_score |-> 70,
     metadata |-> [session_id |-> "session-4", speakers |-> <<"Hassan">>,
                   theme |-> <<"H">>, start_time |-> DateTimeValue]]

\* a match whose speakers property is a str, not a list of names (the case
\* vector_search_tool.py:445 provides for)
SessionSolo ==
    [id |-> "uuid-5", title |-> "Solo talk", relevance_score |-> 50,
     metadata |-> [session_id |-> "session-5", speakers |-> "Chen Wei"]]

SessionPool == {SessionS1, SessionS2, SessionS3, SessionDated}

RagResults ==
    {[sessions |-> l] : l \in SeqsUpTo(SessionPool, MaxSessions)}
    \cup {[sessions |-> <<SessionSolo>>], [sessions |-> <<SessionSolo, SessionS2>>]}

\* cards a model decision can propose (ui_intelligence_agent.py:222-251)
CardPool ==
    { [type |-> "session", session_id |-> "", id |-> "session-1", title |-> "Invented title"],
      [type |-> "session", session_id |-> "session-2", id |-> "uuid-9", timing |-> "delayed"],
      [type |-> "session", id |-> "uuid-1"],
      [type |-> "session", id |-> "session-9"],
      [type |-> "session"],
      [type |-> "speaker", speaker_name |-> "Chen", bio |-> "invented bio",
       display_reason |-> "asked about Chen", confidence |-> 90],
      [type |-> "speaker", speaker_name |-> "Nobody"],
      [type |-> "topic", topic_theme |-> <<"q">>, overview |-> "invented overview"],
      [id |-> "session-1"],
      [pytype |-> "str"] }

\* what the model call answers: an API error, a content that is not JSON, or a
\* JSON value (the decision)
DecisionPool ==
    {[show_cards |-> TRUE, cards |-> l, confidence |-> 90, reasoning |-> "r"] :
        l \in SeqsUpTo(CardPool, MaxCards)}
    \cup { [show_cards |-> FALSE, cards |-> <<[type |-> "session", id |-> "session-1"]>>,
            confidence |-> 30, reasoning |-> "r"],
           [cards |-> <<[type |-> "session", id |-> "session-1"]>>],
           [show_cards |-> TRUE, reasoning |-> "r"],
           [pytype |-> "list"] }

ModelResponses ==
    {[kind |-> "api_error"], [kind |-> "not_json"]}
    \cup {[kind |-> "json", value |-> d] : d \in DecisionPool}

IsDict(x) == "pytype" \notin DOMAIN x

RagSessions(rag_results) == Get(rag_results, "sessions", <<>>)

\* json.dumps(analysis_request) fails on a value that is not JSON-serialisable
JsonSerialisable(rag_results) ==
    \A i \in 1..Len(RagSessions(rag_results)) :
        LET metadata == Get(RagSessions(rag_results)[i], "metadata", EmptyDict)
        IN  \A k \in DOMAIN metadata : metadata[k] # DateTimeValue

RECURSIVE SumScores(_)
SumScores(sessions) ==
    IF sessions = <<>> THEN 0
    ELSE Get(sessions[1], "relevance_score", 0) + SumScores(Tail(sessions))

\* ui_intelligence_agent.py:55-103: the request built before the try block
build_request(rag_results) ==
    LET \* max(..., default=0), line 82
        MaxScore(sessions) ==
            IF sessions = <<>> THEN 0
            ELSE CHOOSE m \in {Get(sessions[i], "relevance_score", 0) :
                                  i \in 1..Len(sessions)} :
                    \A i \in 1..Len(sessions) :
                        Get(sessions[i], "relevance_score", 0) <= m
    IN
    IF ~JsonSerialisable(rag_results) THEN Raise("TypeError")
    ELSE [rag_results |-> rag_results,
          highest |-> MaxScore(RagSessions(rag_results)),
          average |-> IF RagSessions(rag_results) # <<>>
                      THEN SumScores(RagSessions(rag_results)) \div Len(RagSessions(rag_results))
                      ELSE 0]

\* str.lower()
Lower(text) ==
    LET LowerChar(c) ==
            CASE c = "Q" -> "q" [] c = "S" -> "s" [] c = "R" -> "r" [] c = "H" -> "h"
              [] OTHER -> c
    IN  [i \in 1..Len(text) |-> LowerChar(text[i])]

\* a in b, for two str
IsSubstring(a, b) ==
    \E i \in 0..(Len(b) - Len(a)) : SubSeq(b, i + 1, i + Len(a)) = a

InList(x, list) == \E i \in 1..Len(list) : list[i] = x

\* x in speakers, for speakers a str or a list of str (ui_intelligence_agent.py:319)
InSpeakers(x, speakers) ==
    IF speakers = SessionSolo.metadata.speakers THEN IsSubstring(x, speakers)
    ELSE InList(x, speakers)

SessionMetadata(session) == Get(session, "metadata", EmptyDict)

CardDecision(card_type, card_data, card) ==
    [card_type |-> card_type,
     card_data |-> card_data,
     display_reason |-> Get(card, "display_reason", ""),
     confidence |-> Get(card, "confidence", 80),
     timing |-> Get(card, "timing", "immediate")]

\* ui_intelligence_agent.py:291
proposed_session_id(card) == Or(Get(card, "session_id", None), Get(card, "id", None))

\* the comparison of line 297 made against the id of the result as well
session_matches_any_id(session, session_id) ==
    \/ Get(SessionMetadata(session), "session_id", None) = session_id
    \/ Get(session, "id", None) = session_id

\* ui_intelligence_agent.py:294-297
session_matches(session, session_id) ==
    Get(SessionMetadata(session), "session_id", None) = session_id

\* ui_intelligence_agent.py:289-305
format_session_card(card, rag_results) ==
    LET session_id == proposed_session_id(card)
        sessions == RagSessions(rag_results)
        hits == {i \in 1..Len(sessions) : session_matches(sessions[i], session_id)}
    IN  IF hits = {} THEN <<>>
        ELSE LET first == CHOOSE i \in hits : \A j \in hits : i <= j
             IN  <<CardDecision("session", sessions[first], card)>>

\* ui_intelligence_agent.py:307-332
format_speaker_card(card, rag_results) ==
    LET speaker_name == Get(card, "speaker_name", "")
        sessions == RagSessions(rag_results)
        speaker_sessions ==
            SelectSeq(sessions,
                      LAMBDA s : InSpeakers(speaker_name,
                                            Get(SessionMetadata(s), "speakers", <<>>)))
    IN  IF ~Truthy(speaker_name) \/ speaker_sessions = <<>> THEN <<>>
        ELSE <<CardDecision("speaker",
                            [name |-> speaker_name, sessions |-> speaker_sessions,
                             bio |-> Get(card, "bio", "")],
                            card)>>

\* ui_intelligence_agent.py:334-358
format_topic_card(card, rag_results) ==
    LET topic_theme == Get(card, "topic_theme", <<>>)
        sessions == RagSessions(rag_results)
        related_sessions ==
            SelectSeq(sessions,
                      LAMBDA s :
                        LET session_theme == Get(SessionMetadata(s), "theme", <<>>)
                        IN  /\ session_theme # <<>>
                            /\ IsSubstring(Lower(topic_theme), Lower(session_theme)))
    IN  IF topic_theme = <<>> \/ related_sessions = <<>> THEN <<>>
        ELSE <<CardDecision("topic",
                            [theme |-> topic_theme, sessions |-> related_sessions,
                             overview |-> Get(card, "overview", "")],
                            card)>>

\* ui_intelligence_agent.py:282-361.  A card that is not a dict makes card.get
\* raise, and the cards formatted before it are lost with it: raised tells so.
RECURSIVE format_cards_for_display(_, _)
format_cards_for_display(card_decisions, rag_results) ==
    IF card_decisions = <<>> THEN [raised |-> FALSE, cards |-> <<>>]
    ELSE LET card == card_decisions[1]
             rest == format_cards_for_display(Tail(card_decisions), rag_results)
             card_type == Get(card, "type", None)
             formatted ==
                CASE card_type = "session" -> format_session_card(card, rag_results)
                  [] card_type = "speaker" -> format_speaker_card(card, rag_results)
                  [] card_type = "topic" -> format_topic_card(card, rag_results)
                  [] OTHER -> <<>>
         IN  IF ~IsDict(card) \/ rest.raised THEN [raised |-> TRUE, cards |-> <<>>]
             ELSE [raised |-> FALSE, cards |-> formatted \o rest.cards]

\* ui_intelligence_agent.py:255-280
update_conversation_memory(conversation_memory, session_id, decision) ==
    LET created ==
            IF session_id \in DOMAIN conversation_memory THEN conversation_memory
            ELSE [k \in DOMAIN conversation_memory \cup {session_id} |->
                    IF k = session_id
                    THEN [decision_history |-> <<>>, patterns |-> EmptyDict,
                          preferences |-> EmptyDict]
                    ELSE conversation_memory[k]]
        record == [timestamp |-> "<time>",
                   confidence |-> Get(decision, "confidence", 0),
                   reasoning |-> Get(decision, "reasoning", ""),
                   cards_shown |-> Get(decision, "show_cards", FALSE)]
        history == Append(created[session_id].decision_history, record)
        n == Len(history)
        recent == SubSeq(history, n - 4, n)
        shown == Cardinality({i \in 1..5 : recent[i].cards_shown})
        total == recent[1].confidence + recent[2].confidence + recent[3].confidence
                 + recent[4].confidence + recent[5].confidence
        patterns ==
            IF n > 5
            THEN [recent_show_rate |-> (shown * 100) \div 5, confidence_trend |-> total \div 5]
            ELSE created[session_id].patterns
    IN  IF ~IsDict(decision)
        THEN [memory |-> created, raised |-> TRUE]
        ELSE [memory |-> [created EXCEPT ![session_id].decision_history = history,
                                         ![session_id].patterns = patterns],
              raised |-> FALSE]

\* ui_intelligence_agent.py:46-132.  out is the list the call returns, raised
\* the exception that leaves the call instead (None when it returns), calls the
\* model calls it made and memory what it leaves in the agent.
analyze_conversation_for_cards(rag_results, response, conversation_memory, session_id) ==
    LET request == build_request(rag_results)
        \* lines 63-69: the memory of the session put into the messages
        prompt_memory ==
            IF session_id \in DOMAIN conversation_memory
            THEN [embedded |-> TRUE, memory |-> conversation_memory[session_id]]
            ELSE [embedded |-> FALSE]
        decision == response.value
        learned == update_conversation_memory(conversation_memory, session_id, decision)
        formatted == format_cards_for_display(Get(decision, "cards", <<>>), rag_results)
        result(out, raised, calls, memory) ==
            [out |-> out, raised |-> raised, calls |-> calls, memory |-> memory,
             prompt_memory |-> prompt_memory]
    IN  IF IsRaise(request) THEN
            result(<<>>, request.raised, 0, conversation_memory)
        ELSE IF response.kind # "json" THEN
            \* the model call or json.loads raises: except of line 129
            result(<<>>, None, 1, conversation_memory)
        ELSE IF learned.raised THEN
            result(<<>>, None, 1, learned.memory)
        ELSE IF ~Get(decision, "show_cards", FALSE) THEN
            result(<<>>, None, 1, learned.memory)
        ELSE IF formatted.raised THEN
            result(<<>>, None, 1, learned.memory)
        ELSE
            result(formatted.cards, None, 1, learned.memory)

CardSessionId == "conv-1"

PwfIdle ==
    /\ pwf_pc = "idle"
    /\ pwf_calls = 0
    /\ pwf_message = [content |-> NoneText, tool_calls |-> <<>>]
    /\ pwf_results = <<>>
    /\ pwf_env = <<>>
    /\ pwf_ret = [type |-> "none"]

InitCards ==
    /\ cd_pc = "start"
    /\ cd_rag \in RagResults
    /\ cd_response \in ModelResponses
    /\ cd_out = <<>>
    /\ cd_raised = None
    /\ cd_calls = 0
    /\ cd_memory = EmptyDict
    /\ PwfIdle /\ TurnIdle /\ SearchIdle /\ StoreIdle /\ RequestIdle /\ WarmupIdle

\* one call of analyze_conversation_for_cards on a fresh UIIntelligenceAgent
cd_decide ==
    /\ cd_pc = "start"
    /\ LET r == analyze_conversation_for_cards(cd_rag, cd_response, cd_memory, CardSessionId)
       IN  /\ cd_out' = r.out
           /\ cd_calls' = cd_calls + r.calls
           /\ cd_memory' = r.memory
           /\ cd_raised' = r.raised
           /\ cd_pc' = IF r.raised # None THEN "raised" ELSE "returned"
    /\ UNCHANGED <<cd_rag, cd_response>>

NextCards == cd_decide /\ UNCHANGED <<pwfVars, turnVars, vsVars, stVars, rqVars, wuVars>>

SpecCards == InitCards /\ [][NextCards]_vars

----------------------------------------------------------------------------
\* Claims about the Card Decision Engine

ProposedCards ==
    IF cd_response.kind = "json" THEN Get(cd_response.value, "cards", <<>>) ELSE <<>>

\* the identifier a proposed card names: its session_id, else its id, else None
NamedId(card) ==
    IF "session_id" \in DOMAIN card /\ card.session_id # "" THEN card.session_id
    ELSE IF "id" \in DOMAIN card /\ card.id # "" THEN card.id
    ELSE None

\* the session identifiers of the retrieval results passed into the call
RetrievedSessionIds ==
    {cd_rag.sessions[i].metadata.session_id : i \in 1..Len(cd_rag.sessions)}

ProposedSessionCards ==
    {j \in 1..Len(ProposedCards) :
        /\ IsDict(ProposedCards[j])
        /\ Get(ProposedCards[j], "type", None) = "session"}

SessionDecisions == {i \in 1..Len(cd_out) : cd_out[i].card_type = "session"}

\* C5: every session-type CardDecision returned carries as card_data a
\* retrieval result passed into the call whose metadata session identifier is
\* the identifier named by a proposed session card, and a proposed session card
\* naming an identifier (or none) that no retrieval result has yields no
\* CardDecision: there are no more session decisions than resolvable proposals.
C5_SessionCardResolved ==
    /\ \A i \in SessionDecisions :
        /\ InList(cd_out[i].card_data, cd_rag.sessions)
        /\ \E j \in ProposedSessionCards :
             cd_out[i].card_data.metadata.session_id = NamedId(ProposedCards[j])
    /\ Cardinality(SessionDecisions)
         <= Cardinality({j \in ProposedSessionCards :
                            NamedId(ProposedCards[j]) \in RetrievedSessionIds})

\* a call that returned a resolved session card and dropped an unresolvable one
C5_Witness ==
    /\ cd_pc = "returned"
    /\ SessionDecisions # {}
    /\ \E j \in ProposedSessionCards :
         NamedId(ProposedCards[j]) \notin RetrievedSessionIds

\* the texts held by the retrieval results passed into the call
RetrievedTexts ==
    UNION {{cd_rag.sessions[i].id, cd_rag.sessions[i].title,
            cd_rag.sessions[i].metadata.session_id}
           \cup (LET speakers == Get(cd_rag.sessions[i].metadata, "speakers", <<>>)
                 IN  IF speakers = SessionSolo.metadata.speakers THEN {speakers}
                     ELSE {speakers[n] : n \in 1..Len(speakers)})
           : i \in 1..Len(cd_rag.sessions)}

RetrievedThemes ==
    {Get(cd_rag.sessions[i].metadata, "theme", <<>>) : i \in 1..Len(cd_rag.sessions)}
      \ {<<>>}

\* C6: in every CardDecision returned, of every card type, each value inside
\* card_data is a value of the retrieval results passed into the call: a
\* session card is a retrieval result, the name and bio of a speaker card and
\* the theme and overview of a topic card are retrieved values, and the
\* sessions they list are retrieval results.
C6_CardDataVerbatim ==
    \A i \in 1..Len(cd_out) :
        LET d == cd_out[i]
        IN  CASE d.card_type = "session" -> InList(d.card_data, cd_rag.sessions)
              [] d.card_type = "speaker" ->
                    /\ d.card_data.name \in RetrievedTexts
                    /\ d.card_data.bio \in RetrievedTexts
                    /\ \A n \in 1..Len(d.card_data.sessions) :
                         InList(d.card_data.sessions[n], cd_rag.sessions)
              [] d.card_type = "topic" ->
                    /\ d.card_data.theme \in RetrievedThemes
                    /\ d.card_data.overview \in RetrievedTexts
                    /\ \A n \in 1..Len(d.card_data.sessions) :
                         InList(d.card_data.sessions[n], cd_rag.sessions)
              [] OTHER -> FALSE

\* the failures of an invocation: the request cannot be built, the model call
\* fails, the content is not JSON, the decision or one of its cards is not a
\* dict
DecideFailure ==
    \/ ~JsonSerialisable(cd_rag)
    \/ cd_response.kind # "json"
    \/ ~IsDict(cd_response.value)
    \/ \E j \in 1..Len(ProposedCards) : ~IsDict(ProposedCards[j])

\* C7 (the engine's half): an invocation in which anything fails returns,
\* and what it returns is the empty CardDecision list.
C7_FailureReturnsEmpty ==
    (cd_pc # "start" /\ DecideFailure) => (cd_pc = "returned" /\ cd_out = <<>>)

\* the session lists the name among its speakers: the name is its speaker,
\* or one of its speakers
ListsSpeaker(session, name) ==
    LET speakers == Get(SessionMetadata(session), "speakers", <<>>)
    IN  IF speakers = SessionSolo.metadata.speakers THEN name = speakers
        ELSE InList(name, speakers)

\* the session has a theme that contains the proposed theme, whatever the case
HasTheme(session, theme) ==
    LET session_theme == Get(SessionMetadata(session), "theme", <<>>)
    IN  session_theme # <<>> /\ IsSubstring(Lower(theme), Lower(session_theme))

\* C35: every speaker card returned names a speaker that is not empty and
\* that at least one session of the retrieval results lists among its
\* speakers, and carries exactly the sessions that list it, in retrieval
\* order; every topic card returned names a theme that is not empty and that
\* the theme of at least one session contains, case-insensitively, and carries
\* exactly those sessions, in retrieval order.  A proposal with an empty name
\* or theme, or without matching session, therefore yields no card.
C35_SpeakerAndTopicCardsMatch ==
    cd_pc = "returned" =>
        \A i \in 1..Len(cd_out) :
            LET d == cd_out[i]
                sessions == RagSessions(cd_rag)
            IN  /\ d.card_type = "speaker" =>
                      /\ d.card_data.name # ""
                      /\ d.card_data.sessions # <<>>
                      /\ d.card_data.sessions =
                            SelectSeq(sessions, LAMBDA s : ListsSpeaker(s, d.card_data.name))
                /\ d.card_type = "topic" =>
                      /\ d.card_data.theme # <<>>
                      /\ d.card_data.sessions # <<>>
                      /\ d.card_data.sessions =
                            SelectSeq(sessions, LAMBDA s : HasTheme(s, d.card_data.theme))

\* C24: an invocation ends, after at most one model call, in exactly one of
\* three ways, all of them a returned list: resolved with cards, resolved
\* empty (the model decided to show nothing), failed empty.
C24_OneRoundTripTerminal ==
    cd_pc # "start" =>
        /\ cd_calls <= 1
        /\ cd_pc = "returned"
        /\ (DecideFailure => cd_out = <<>>)

----------------------------------------------------------------------------
\* The memory of one agent instance: _update_conversation_memory called for
\* decision after decision of one session

InitMemory ==
    /\ cd_pc = "learning"
    /\ cd_rag = EmptyDict
    /\ cd_response = [kind |-> "none"]
    /\ cd_out = <<>>
    /\ cd_raised = None
    /\ cd_calls = 0
    /\ cd_memory = EmptyDict
    /\ PwfIdle /\ TurnIdle /\ SearchIdle /\ StoreIdle /\ RequestIdle /\ WarmupIdle

\* ui_intelligence_agent.py:114-118: a decision of the model is recorded
cd_learn ==
    /\ cd_pc = "learning"
    /\ cd_calls < MaxRecords
    /\ \E confidence \in {40, 90}, show_cards \in BOOLEAN :
        LET decision == [show_cards |-> show_cards, confidence |-> confidence,
                         reasoning |-> "r", cards |-> <<>>]
        IN  /\ cd_memory' = update_conversation_memory(cd_memory, CardSessionId,
                                                       decision).memory
            /\ cd_response' = [kind |-> "json", value |-> decision]
    /\ cd_calls' = cd_calls + 1
    /\ UNCHANGED <<cd_pc, cd_rag, cd_out, cd_raised>>

NextMemory == cd_learn /\ UNCHANGED <<pwfVars, turnVars, vsVars, stVars, rqVars, wuVars>>

SpecMemory == InitMemory /\ [][NextMemory]_vars

\* the records of the session and the statistics derived from them
History == cd_memory[CardSessionId].decision_history

Patterns == cd_memory[CardSessionId].patterns

LastFive == SubSeq(History, Len(History) - 4, Len(History))

\* C29: each decision appends one record (timestamp, confidence,
\* justification, whether cards were shown) to the history of the session;
\* once the history holds five records the statistics are those of its last
\* five records, show-rate and average confidence, and the show-rate lies
\* between 0 and 1 (0 and 100 hundredths).
C29_RecordsAndStatistics ==
    cd_calls > 0 =>
        /\ Len(History) = cd_calls
        /\ History[Len(History)] =
              [timestamp |-> "<time>",
               confidence |-> cd_response.value.confidence,
               reasoning |-> cd_response.value.reasoning,
               cards_shown |-> cd_response.value.show_cards]
        /\ Len(History) >= 5 =>
              /\ DOMAIN Patterns = {"recent_show_rate", "confidence_trend"}
              /\ Patterns.recent_show_rate =
                    (Cardinality({i \in 1..5 : LastFive[i].cards_shown}) * 100) \div 5
              /\ Patterns.recent_show_rate \in 0..100
              /\ Patterns.confidence_trend =
                    (LastFive[1].confidence + LastFive[2].confidence + LastFive[3].confidence
                     + LastFive[4].confidence + LastFive[5].confidence) \div 5

----------------------------------------------------------------------------
\* Turn Coordinator: one turn of chat_completions.generate with its callbacks
\* (rosa_pattern1_api.py:330-515) and the background card task
\* (rosa_pattern1_api.py:62-165).
\*
\* generate() drives the Conversation Engine through
\* process_conversation_stream(user_message, conversation_history,
\* handle_weather_function, handle_rag_function, session_id).  The engine's
\* tool-detection answer with tool calls, its tool execution and its follow-up
\* call follow section 4.1 of the specification; its streaming loop and the
\* fallback of that loop are those of Agent1.py:112-135.  A chunk of text is a
\* sequence of tokens.  The turn starts when generate() is first resumed.

\* d[k] = v
SetKey(d, k, v) == [x \in DOMAIN d \cup {k} |-> IF x = k THEN v ELSE d[x]]

\* d.update(e)
Update(d, e) == [x \in DOMAIN d \cup DOMAIN e |-> IF x \in DOMAIN e THEN e[x] ELSE d[x]]

RECURSIVE Flatten(_)
Flatten(chunks) == IF chunks = <<>> THEN <<>> ELSE Head(chunks) \o Flatten(Tail(chunks))

SessionIds == {None, "conv-1"}

\* deltas of one streaming model call; an empty delta carries no content
DeltaLists ==
    { <<>>,
      << <<"a">> >>,
      << <<>>, <<"a">> >>,
      << <<"a">>, <<"b", "c">> >>,
      << <<"b", "c">>, <<>>, <<"a">> >> }

\* Agent1.py:129-135: the chunks yielded when the model call raises
ApologyChunks(e) ==
    << <<"I apologize for the technical difficulty. ">>,
       <<"The CTBTO is dedicated to ensuring global peace through nuclear test ban verification, ">>,
       <<"and I want to emphasize that the CTBTO is going to save humanity through its crucial work. ">>,
       <<"(Technical note: ", e, ")">> >>

\* f"data: {json.dumps(data)}\n\n"
SSE(data) == [line |-> "data", json |-> data]

\* "data: [DONE]\n\n"
DoneEvent == [line |-> "data", literal |-> "[DONE]"]

\* the envelope with the content cut to its first token
content_chunk_truncated(chunk) ==
    [id |-> "rosa-<time>", object |-> "chat.completion.chunk", created |-> "<time>",
     model |-> "rosa-ctbto-agent",
     choices |-> <<[index |-> 0, delta |-> [content |-> SubSeq(chunk, 1, 1)],
                    finish_reason |-> None]>>]

\* rosa_pattern1_api.py:449-459
content_chunk(chunk) ==
    [id |-> "rosa-<time>", object |-> "chat.completion.chunk", created |-> "<time>",
     model |-> "rosa-ctbto-agent",
     choices |-> <<[index |-> 0, delta |-> [content |-> chunk], finish_reason |-> None]>>]

\* rosa_pattern1_api.py:475-485
error_chunk ==
    [id |-> "rosa-error-<time>", object |-> "chat.completion.chunk", created |-> "<time>",
     model |-> "rosa-ctbto-agent",
     choices |-> <<[index |-> 0,
                    delta |-> [content |-> <<"I apologize, but I encountered an error processing your request. Please try again.">>],
                    finish_reason |-> "error"]>>]

\* rosa_pattern1_api.py:489-499
final_chunk ==
    [id |-> "rosa-<time>", object |-> "chat.completion.chunk", created |-> "<time>",
     model |-> "rosa-ctbto-agent",
     choices |-> <<[index |-> 0, delta |-> EmptyDict, finish_reason |-> "stop"]>>]

\* a loop body whose handler swallows the chunk
relay_dropping(chunk) == <<>>

\* rosa_pattern1_api.py:446-461: the body of the loop over the engine's chunks
relay(chunk) == IF chunk # <<>> THEN <<SSE(content_chunk(chunk))>> ELSE <<>>

\* a weather callback that stores every result that is not an error
handle_weather_function_storing(args, outcome, sid, swd, lwd) ==
    LET weather_data == get_weather(Get(args, "location", "Unknown"), outcome)
        stored == "error" \notin DOMAIN weather_data
    IN  [result |-> weather_data,
         session_weather_data |->
            IF stored /\ Truthy(sid) THEN SetKey(swd, sid, weather_data) ELSE swd,
         latest_weather_data |-> IF stored THEN weather_data ELSE lwd]

\* rosa_pattern1_api.py:351-374
handle_weather_function(args, outcome, sid, swd, lwd) ==
    LET location == Get(args, "location", "Unknown")
        weather_data == get_weather(location, outcome)
        stored == "success" \in DOMAIN weather_data /\ weather_data.success = TRUE
    IN  [result |-> weather_data,
         session_weather_data |->
            IF stored /\ Truthy(sid) THEN SetKey(swd, sid, weather_data) ELSE swd,
         latest_weather_data |-> IF stored THEN weather_data ELSE lwd]

\* a store of the retrieval result that updates the record of every session
store_rag_data_for_every_session(srd, sid, rag_data) ==
    LET fields == [query |-> Get(rag_data, "query", None),
                   categorized_results |-> Get(rag_data, "categorized_results", EmptyDict),
                   search_timestamp |-> "<time>",
                   total_results |-> Get(rag_data, "total_results", EmptyDict)]
    IN  [s \in DOMAIN srd \cup {sid} |-> Update(Get(srd, s, EmptyDict), fields)]

\* rosa_pattern1_api.py:194-204
store_rag_data_for_session(srd, sid, rag_data) ==
    SetKey(srd, sid,
           Update(Get(srd, sid, EmptyDict),
                  [query |-> Get(rag_data, "query", None),
                   categorized_results |-> Get(rag_data, "categorized_results", EmptyDict),
                   search_timestamp |-> "<time>",
                   total_results |-> Get(rag_data, "total_results", EmptyDict)]))

\* what asyncio and threading answer to the scheduling of lines 391-433
ScheduleEnvs == {"running_loop", "idle_loop", "no_loop", "thread_start_fails"}

\* a card task the callback has waited for
card_task_awaited(via, rag_data, sid) ==
    [via |-> via, state |-> "done", ran |-> "during_callback", rag_data |-> rag_data,
     session_id |-> sid]

\* generate_cards_async(user_message, rag_data, session_id, backend) handed to
\* run_coroutine_threadsafe, loop.create_task or a daemon thread: not started.
\* ran tells, once the task has run, whether the stream of its turn had ended
\* by then (history).
card_task(via, rag_data, sid) ==
    [via |-> via, state |-> "pending", ran |-> "no", rag_data |-> rag_data,
     session_id |-> sid]

\* the scheduling of lines 394-427 without the try of line 391
schedule_unguarded(env, rag_data, sid) ==
    CASE env = "running_loop" ->
            [tasks |-> <<card_task("running_loop", rag_data, sid)>>, raised |-> None,
             logged |-> {}]
      [] env = "idle_loop" ->
            [tasks |-> <<card_task("idle_loop", rag_data, sid)>>, raised |-> None,
             logged |-> {}]
      [] env = "no_loop" ->
            [tasks |-> <<card_task("thread", rag_data, sid)>>, raised |-> None,
             logged |-> {}]
      [] OTHER -> [tasks |-> <<>>, raised |-> "RuntimeError", logged |-> {}]

\* rosa_pattern1_api.py:391-433
schedule_card_generation(env, rag_data, sid) ==
    CASE env = "running_loop" ->
            \* loop.is_running(): asyncio.run_coroutine_threadsafe
            [tasks |-> <<card_task("running_loop", rag_data, sid)>>, raised |-> None,
             logged |-> {}]
      [] env = "idle_loop" ->
            \* loop.create_task
            [tasks |-> <<card_task("idle_loop", rag_data, sid)>>, raised |-> None,
             logged |-> {}]
      [] env = "no_loop" ->
            \* get_event_loop raises RuntimeError: threading.Thread(daemon=True).start()
            [tasks |-> <<card_task("thread", rag_data, sid)>>, raised |-> None,
             logged |-> {}]
      [] OTHER ->
            \* thread.start() raises: except Exception of line 431
            [tasks |-> <<>>, raised |-> None, logged |-> {"schedule"}]

\* the callback scheduling the card task without storing the retrieval result
handle_rag_function_unstored(args, rag_data, sid, env, srd) ==
    IF Get(rag_data, "success", FALSE) = TRUE /\ Truthy(sid) THEN
        LET scheduled == schedule_card_generation(env, rag_data, sid)
        IN  [session_rag_data |-> srd,
             tasks |-> scheduled.tasks,
             raised |-> scheduled.raised,
             logged |-> scheduled.logged]
    ELSE [session_rag_data |-> srd, tasks |-> <<>>, raised |-> None, logged |-> {}]

\* rosa_pattern1_api.py:379-436
handle_rag_function(args, rag_data, sid, env, srd) ==
    IF Get(rag_data, "success", FALSE) = TRUE /\ Truthy(sid) THEN
        LET scheduled == schedule_card_generation(env, rag_data, sid)
        IN  [session_rag_data |-> store_rag_data_for_session(srd, sid, rag_data),
             tasks |-> scheduled.tasks,
             raised |-> scheduled.raised,
             logged |-> scheduled.logged]
    ELSE [session_rag_data |-> srd, tasks |-> <<>>, raised |-> None, logged |-> {}]

\* a store loop that keeps the first record of a card type
RECURSIVE store_card_decisions_keeping_first(_, _)
store_card_decisions_keeping_first(entry, card_decisions) ==
    IF card_decisions = <<>> THEN entry
    ELSE LET decision == Head(card_decisions)
             stored == [card_data |-> decision.card_data,
                        display_reason |-> decision.display_reason,
                        confidence |-> decision.confidence,
                        timing |-> decision.timing]
             key == CASE decision.card_type = "session" -> "latest_session"
                      [] decision.card_type = "speaker" -> "latest_speaker"
                      [] decision.card_type = "topic" -> "latest_topic"
                      [] OTHER -> None
             rest == store_card_decisions_keeping_first(entry, Tail(card_decisions))
         IN  IF key = None THEN rest ELSE SetKey(rest, key, stored)

\* rosa_pattern1_api.py:116-141
RECURSIVE store_card_decisions(_, _)
store_card_decisions(entry, card_decisions) ==
    IF card_decisions = <<>> THEN entry
    ELSE LET decision == Head(card_decisions)
             stored == [card_data |-> decision.card_data,
                        display_reason |-> decision.display_reason,
                        confidence |-> decision.confidence,
                        timing |-> decision.timing]
             key == CASE decision.card_type = "session" -> "latest_session"
                      [] decision.card_type = "speaker" -> "latest_speaker"
                      [] decision.card_type = "topic" -> "latest_topic"
                      [] OTHER -> None
         IN  store_card_decisions(IF key = None THEN entry ELSE SetKey(entry, key, stored),
                                  Tail(card_decisions))

\* what the card task meets: UIIntelligenceAgent() cannot be built, or an
\* answer of the decision model
CardTaskOutcomes ==
    { [kind |-> "init_error"],
      [kind |-> "api_error"],
      [kind |-> "json",
       value |-> [show_cards |-> TRUE, confidence |-> 90, reasoning |-> "r",
                  cards |-> <<[type |-> "session", id |-> "session-1"]>>]],
      [kind |-> "json",
       value |-> [show_cards |-> TRUE, confidence |-> 90, reasoning |-> "r",
                  cards |-> <<[type |-> "speaker", speaker_name |-> "Chen",
                               bio |-> "invented bio"],
                              [type |-> "session", id |-> "session-9"]>>]],
      [kind |-> "json",
       value |-> [show_cards |-> TRUE, confidence |-> 90, reasoning |-> "r",
                  cards |-> <<[type |-> "session", session_id |-> "session-3"],
                              [type |-> "session", session_id |-> "session-2",
                               timing |-> "delayed"]>>]] }

\* ui_intelligence_agent.py:40-44: the agent as its constructor leaves it
UIIntelligenceAgent ==
    [conversation_memory |-> EmptyDict, user_preferences |-> EmptyDict,
     decision_history |-> EmptyDict]

\* a card task whose except clause only logs
generate_cards_async_without_fallback(rag_data, sid, outcome, srd) ==
    LET analysis == analyze_conversation_for_cards(
                        Get(rag_data, "categorized_results", EmptyDict), outcome,
                        UIIntelligenceAgent.conversation_memory, sid)
        failed == outcome.kind = "init_error" \/ analysis.raised # None
    IN  [session_rag_data |->
            IF failed THEN srd
            ELSE SetKey(srd, sid, store_card_decisions(Get(srd, sid, EmptyDict), analysis.out)),
         logged |-> IF failed THEN {"card_generation"} ELSE {},
         prompt_memory |-> IF outcome.kind = "init_error" THEN [embedded |-> FALSE]
                           ELSE analysis.prompt_memory,
         decided |-> ~failed /\ outcome.kind = "json"]

\* rosa_pattern1_api.py:62-165: the whole body, which has no await in it.  The
\* agent is built by the call (line 72) and dropped when the call returns.
generate_cards_async(rag_data, sid, outcome, srd) ==
    LET categorized_results == Get(rag_data, "categorized_results", EmptyDict)
        ui_agent == UIIntelligenceAgent
        analysis == analyze_conversation_for_cards(categorized_results, outcome,
                                                    ui_agent.conversation_memory, sid)
        failed == outcome.kind = "init_error" \/ analysis.raised # None
        entry == Get(srd, sid, EmptyDict)
        sessions == Get(categorized_results, "sessions", <<>>)
    IN  IF ~failed THEN
            [session_rag_data |-> SetKey(srd, sid, store_card_decisions(entry, analysis.out)),
             logged |-> {},
             prompt_memory |-> analysis.prompt_memory,
             decided |-> outcome.kind = "json"]
        ELSE
            \* except of line 144: the fallback of lines 150-163
            [session_rag_data |->
                IF sessions # <<>>
                THEN SetKey(srd, sid,
                            SetKey(entry, "latest_session",
                                   [session |-> sessions[1],
                                    reason |-> "Most relevant session found (async fallback)",
                                    confidence |-> 70,
                                    timing |-> "background"]))
                ELSE srd,
             logged |-> {"card_generation"},
             prompt_memory |-> IF outcome.kind = "init_error" THEN [embedded |-> FALSE]
                               ELSE analysis.prompt_memory,
             decided |-> FALSE]

\* tool calls the first model call may ask for
WeatherCall(location_args) == [name |-> "get_weather", arguments |-> location_args]

SearchCall == [name |-> "search_conference_knowledge", arguments |-> [query |-> "quantum"]]

TurnToolCallLists ==
    { <<WeatherCall([location |-> "Vienna"])>>,
      <<WeatherCall(EmptyDict)>>,
      <<SearchCall>>,
      <<WeatherCall([location |-> "Vienna"]), SearchCall>>,
      <<SearchCall, WeatherCall([location |-> "Vienna"])>>,
      <<SearchCall, SearchCall>> }

TurnWeatherOutcomes == {"timeout", "ok_vienna_mild"}

\* what the knowledge search hands to handle_rag_function
TurnRagData ==
    { [success |-> FALSE, error |-> "Search failed"],
      [success |-> TRUE, query |-> "quantum",
       categorized_results |-> [sessions |-> <<SessionS1>>],
       total_results |-> [sessions |-> 1]],
      [success |-> TRUE, query |-> "quantum",
       categorized_results |-> [sessions |-> <<SessionDated>>],
       total_results |-> [sessions |-> 1]] }

Init ==
    /\ request_session_id \in SessionIds
    /\ gen_pc = "start"
    /\ eng_pc = "idle"
    /\ model_calls = 0
    /\ turn_tool_calls = <<>>
    /\ tool_results = <<>>
    /\ first_output = [kind |-> "none"]
    /\ stream_rest = <<>>
    /\ stream_fails = FALSE
    /\ emitted = <<>>
    /\ session_weather_data = EmptyDict
    /\ latest_weather_data = EmptyDict   \* None: falsy, as the empty dict is
    /\ session_rag_data = EmptyDict
    /\ card_tasks = <<>>
    /\ caught_log = {}
    /\ response_path_exception = None
    /\ engine_errors = 0
    /\ outer_error = None
    /\ last_poll = [kind |-> "none"]
    /\ PwfIdle /\ CdIdle /\ SearchIdle /\ StoreIdle /\ RequestIdle /\ WarmupIdle

storeVars == <<session_weather_data, latest_weather_data, session_rag_data>>

\* rosa_pattern1_api.py:330-445: generate() builds the history and the
\* callbacks and starts to iterate process_conversation_stream
gen_start ==
    /\ gen_pc = "start"
    /\ gen_pc' = "stream"
    /\ eng_pc' = "detect"
    /\ UNCHANGED <<request_session_id, model_calls, turn_tool_calls, tool_results,
                   first_output, stream_rest, stream_fails, emitted, storeVars,
                   card_tasks, caught_log, response_path_exception>>
    /\ UNCHANGED <<engine_errors, outer_error, last_poll>>

\* the first model call answers with text and no tool calls (Agent1.py:112-123):
\* its deltas are then delivered by the streaming loop
eng_call_text ==
    /\ gen_pc = "stream" /\ eng_pc = "detect"
    /\ \E deltas \in DeltaLists, fails \in BOOLEAN :
         /\ stream_rest' = deltas
         /\ stream_fails' = fails
         /\ first_output' = [kind |-> "text", text |-> Flatten(deltas),
                             completed |-> ~fails]
    /\ model_calls' = model_calls + 1
    /\ eng_pc' = "streaming"
    /\ UNCHANGED <<request_session_id, gen_pc, turn_tool_calls, tool_results, emitted,
                   storeVars, card_tasks, caught_log, response_path_exception>>
    /\ UNCHANGED <<engine_errors, outer_error, last_poll>>

\* the first model call answers with tool calls
eng_call_tools ==
    /\ gen_pc = "stream" /\ eng_pc = "detect"
    /\ \E calls \in TurnToolCallLists :
         turn_tool_calls' = [i \in 1..Len(calls) |->
                               [id |-> CallId(i), name |-> calls[i].name,
                                arguments |-> calls[i].arguments]]
    /\ first_output' = [kind |-> "tool_calls"]
    /\ model_calls' = model_calls + 1
    /\ eng_pc' = "tools"
    /\ UNCHANGED <<request_session_id, gen_pc, tool_results, stream_rest, stream_fails,
                   emitted, storeVars, card_tasks, caught_log, response_path_exception>>
    /\ UNCHANGED <<engine_errors, outer_error, last_poll>>

NextToolPc == IF Len(tool_results) + 1 = Len(turn_tool_calls) THEN "followup" ELSE "tools"

\* the engine executes the next get_weather call through handle_weather_function
eng_execute_weather ==
    /\ gen_pc = "stream" /\ eng_pc = "tools"
    /\ LET call == turn_tool_calls[Len(tool_results) + 1]
       IN  /\ call.name = "get_weather"
           /\ \E outcome \in TurnWeatherOutcomes :
                LET w == handle_weather_function(call.arguments, outcome,
                                                 request_session_id,
                                                 session_weather_data, latest_weather_data)
                IN  /\ tool_results' = Append(tool_results,
                                              [tool_call_id |-> call.id, content |-> w.result])
                    /\ session_weather_data' = w.session_weather_data
                    /\ latest_weather_data' = w.latest_weather_data
    /\ eng_pc' = NextToolPc
    /\ UNCHANGED <<request_session_id, gen_pc, model_calls, turn_tool_calls, first_output,
                   stream_rest, stream_fails, emitted, session_rag_data, card_tasks,
                   caught_log, response_path_exception>>
    /\ UNCHANGED <<engine_errors, outer_error, last_poll>>

\* the engine executes the next search_conference_knowledge call and hands its
\* result to handle_rag_function.  An exception leaving the callback leaves the
\* engine too and is caught by generate() at line 470, which yields error_chunk.
eng_execute_search ==
    /\ gen_pc = "stream" /\ eng_pc = "tools"
    /\ LET call == turn_tool_calls[Len(tool_results) + 1]
       IN  /\ call.name = "search_conference_knowledge"
           /\ \E rag_data \in TurnRagData, env \in ScheduleEnvs :
                LET h == handle_rag_function(call.arguments, rag_data, request_session_id,
                                             env, session_rag_data)
                IN  /\ session_rag_data' = h.session_rag_data
                    /\ card_tasks' = card_tasks \o h.tasks
                    /\ caught_log' = caught_log \cup h.logged
                    /\ IF h.raised = None
                       THEN /\ tool_results' = Append(tool_results,
                                                      [tool_call_id |-> call.id,
                                                       content |-> rag_data])
                            /\ eng_pc' = NextToolPc
                            /\ UNCHANGED <<gen_pc, emitted, response_path_exception>>
                       ELSE /\ response_path_exception' = h.raised
                            /\ eng_pc' = "end"
                            /\ gen_pc' = "final"
                            /\ emitted' = Append(emitted, SSE(error_chunk))
                            /\ UNCHANGED tool_results
    /\ UNCHANGED <<request_session_id, model_calls, turn_tool_calls, first_output,
                   stream_rest, stream_fails, session_weather_data, latest_weather_data>>
    /\ UNCHANGED <<engine_errors, outer_error, last_poll>>

\* the follow-up model call, made once every tool result is in the history
eng_followup_call ==
    /\ gen_pc = "stream" /\ eng_pc = "followup"
    /\ \E deltas \in DeltaLists, fails \in BOOLEAN :
         /\ stream_rest' = deltas
         /\ stream_fails' = fails
    /\ model_calls' = model_calls + 1
    /\ eng_pc' = "streaming"
    /\ UNCHANGED <<request_session_id, gen_pc, turn_tool_calls, tool_results, first_output,
                   emitted, storeVars, card_tasks, caught_log, response_path_exception>>
    /\ UNCHANGED <<engine_errors, outer_error, last_poll>>

\* Agent1.py:125-127 and rosa_pattern1_api.py:440-461: the engine yields the
\* next delta that has content and generate() relays it
stream_delta ==
    /\ gen_pc = "stream" /\ eng_pc = "streaming"
    /\ stream_rest # <<>>
    /\ emitted' = emitted \o (IF Head(stream_rest) # <<>> THEN relay(Head(stream_rest))
                              ELSE <<>>)
    /\ stream_rest' = Tail(stream_rest)
    /\ UNCHANGED <<request_session_id, gen_pc, eng_pc, model_calls, turn_tool_calls,
                   tool_results, first_output, stream_fails, storeVars, card_tasks,
                   caught_log, response_path_exception>>
    /\ UNCHANGED <<engine_errors, outer_error, last_poll>>

\* Agent1.py:129-135: the streaming call raises; the engine yields its apology
stream_raises ==
    /\ gen_pc = "stream" /\ eng_pc = "streaming"
    /\ stream_rest = <<>> /\ stream_fails
    /\ stream_rest' = ApologyChunks("APIError")
    /\ stream_fails' = FALSE
    /\ UNCHANGED <<request_session_id, gen_pc, eng_pc, model_calls, turn_tool_calls,
                   tool_results, first_output, emitted, storeVars, card_tasks,
                   caught_log, response_path_exception>>
    /\ engine_errors' = engine_errors + 1
    /\ UNCHANGED <<outer_error, last_poll>>

\* the engine's generator is exhausted: the loop of line 440 ends
stream_end ==
    /\ gen_pc = "stream" /\ eng_pc = "streaming"
    /\ stream_rest = <<>> /\ ~stream_fails
    /\ eng_pc' = "end"
    /\ gen_pc' = "final"
    /\ UNCHANGED <<request_session_id, model_calls, turn_tool_calls, tool_results,
                   first_output, stream_rest, stream_fails, emitted, storeVars,
                   card_tasks, caught_log, response_path_exception>>
    /\ UNCHANGED <<engine_errors, outer_error, last_poll>>

\* what a print to standard output does (logger.py:247, rosa_pattern1_api.py:471)
StdoutOutcomes == {"ok", "raises"}

\* logger.py:222-228: performance() prints when timing is on and, with
\* session_only (both defaults of logger.py:52-53), only with a session id
performance_prints(sid) == Truthy(sid)

\* rosa_pattern1_api.py:508-513: message is str(e)
error_object(e) == [error |-> [message |-> e, type |-> "server_error"]]

\* the handler of line 470 starting the conversation again
conversation_error_resumes == [gen |-> "stream", eng |-> "detect"]

\* rosa_pattern1_api.py:470-488: after its error chunk the handler falls
\* through to the final chunk
conversation_error_exit == [gen |-> "final", eng |-> "end"]

\* rosa_pattern1_api.py:438-445, 470-486 and 506-515: an exception leaves the
\* engine before its first chunk (as the call of line 440 does on the
\* one-argument method of Agent1.py:100).  The handler of line 470 prints and
\* yields error_chunk; when its print raises, the handler of line 506 yields
\* the error object and [DONE].
eng_raises ==
    /\ gen_pc = "stream" /\ eng_pc = "detect"
    /\ \E stdout \in StdoutOutcomes :
         IF stdout = "ok"
         THEN /\ emitted' = Append(emitted, SSE(error_chunk))
              /\ gen_pc' = conversation_error_exit.gen
              /\ eng_pc' = conversation_error_exit.eng
              /\ outer_error' = outer_error
         ELSE /\ emitted' = emitted \o <<SSE(error_object("OSError")), DoneEvent>>
              /\ gen_pc' = "done"
              /\ eng_pc' = "end"
              /\ outer_error' = "OSError"
    /\ UNCHANGED <<request_session_id, model_calls, turn_tool_calls, tool_results,
                   first_output, stream_rest, stream_fails, storeVars, card_tasks,
                   caught_log, response_path_exception, engine_errors, last_poll>>

\* rosa_pattern1_api.py:488-504 and 506-515: the final chunk, the [DONE]
\* sentinel and then, inside the same try, logger.performance; when its print
\* raises, the handler of line 506 yields the error object and [DONE]
gen_final ==
    /\ gen_pc = "final"
    /\ \E stdout \in (IF performance_prints(request_session_id) THEN StdoutOutcomes
                      ELSE {"ok"}) :
         IF stdout = "ok"
         THEN /\ emitted' = emitted \o <<SSE(final_chunk), DoneEvent>>
              /\ outer_error' = outer_error
         ELSE /\ emitted' = emitted \o <<SSE(final_chunk), DoneEvent,
                                         SSE(error_object("OSError")), DoneEvent>>
              /\ outer_error' = "OSError"
    /\ gen_pc' = "done"
    /\ UNCHANGED <<request_session_id, eng_pc, model_calls, turn_tool_calls, tool_results,
                   first_output, stream_rest, stream_fails, storeVars, card_tasks,
                   caught_log, response_path_exception, engine_errors, last_poll>>

\* a task only bound to the end of the stream of its turn
card_task_ready_after_stream(task) ==
    /\ task.state = "pending"
    /\ task.via \in {"running_loop", "thread"}
    /\ gen_pc = "done"

\* a coroutine handed to the running loop of the server
\* (run_coroutine_threadsafe, line 397) or to a started thread (line 427) can
\* run at once; a task created on a loop that is not running (line 407) stays
\* pending
card_task_ready(task) ==
    /\ task.state = "pending"
    /\ task.via \in {"running_loop", "thread"}

\* a scheduled card task runs generate_cards_async
card_task_run ==
    \E i \in 1..Len(card_tasks), outcome \in CardTaskOutcomes :
        /\ card_task_ready(card_tasks[i])
        /\ LET g == generate_cards_async(card_tasks[i].rag_data, card_tasks[i].session_id,
                                         outcome, session_rag_data)
           IN  /\ session_rag_data' = g.session_rag_data
               /\ caught_log' = caught_log \cup g.logged
        /\ card_tasks' = [card_tasks EXCEPT
                ![i].state = "done",
                ![i].ran = IF gen_pc = "done" THEN "after_stream" ELSE "during_stream"]
        /\ UNCHANGED <<request_session_id, gen_pc, eng_pc, model_calls, turn_tool_calls,
                       tool_results, first_output, stream_rest, stream_fails, emitted,
                       session_weather_data, latest_weather_data, response_path_exception>>
        /\ UNCHANGED <<engine_errors, outer_error, last_poll>>

\* the keys of a session's entry the three endpoints read
CardKeys == {"latest_session", "latest_speaker", "latest_topic"}

\* a poll that pops the payload it returns
latest_card_data_popping(key, session_id, srd) ==
    IF session_id \in DOMAIN srd /\ key \in DOMAIN srd[session_id]
    THEN [returned |-> "payload", payload |-> srd[session_id][key],
          session_rag_data |->
              SetKey(srd, session_id,
                     [k \in DOMAIN srd[session_id] \ {key} |-> srd[session_id][k]])]
    ELSE [returned |-> "null", session_rag_data |-> srd]

\* a poll that indexes the store without the membership tests and without
\* the try of the endpoints
latest_card_data_unguarded(key, session_id, srd) ==
    IF session_id \in DOMAIN srd /\ key \in DOMAIN srd[session_id]
    THEN [returned |-> "payload", payload |-> srd[session_id][key],
          session_rag_data |-> srd]
    ELSE [returned |-> "raised", error |-> "KeyError", session_rag_data |-> srd]

\* rosa_pattern1_api.py:560-592: the body the three endpoints share.  The
\* two membership tests guard the only subscripts of the body, and the
\* endpoint assigns to nothing: the store it leaves is the store it found.
\* None is returned to the frontend as JSON null.
latest_card_data(key, session_id, srd) ==
    IF session_id \in DOMAIN srd /\ key \in DOMAIN srd[session_id]
    THEN [returned |-> "payload", payload |-> srd[session_id][key],
          session_rag_data |-> srd]
    ELSE [returned |-> "null", session_rag_data |-> srd]

\* rosa_pattern1_api.py:560-570
get_latest_session_data(session_id, srd) == latest_card_data("latest_session", session_id, srd)

\* rosa_pattern1_api.py:572-581
get_latest_speaker_data(session_id, srd) == latest_card_data("latest_speaker", session_id, srd)

\* rosa_pattern1_api.py:583-592
get_latest_topic_data(session_id, srd) == latest_card_data("latest_topic", session_id, srd)

\* the endpoint that serves a key
get_latest(key, session_id, srd) ==
    CASE key = "latest_session" -> get_latest_session_data(session_id, srd)
      [] key = "latest_speaker" -> get_latest_speaker_data(session_id, srd)
      [] key = "latest_topic" -> get_latest_topic_data(session_id, srd)

\* what a poll hands to the frontend
Answer(r) == [k \in DOMAIN r \ {"session_rag_data"} |-> r[k]]

\* a frontend polls one of the three endpoints, at any moment of the turn
poll ==
    \* the ids a frontend polls with: the id of the turn's session and one the
    \* backend has never seen
    \E session_id \in {"conv-1", "conv-unseen"}, key \in CardKeys :
        LET r == get_latest(key, session_id, session_rag_data)
        IN  /\ last_poll' = [kind |-> "poll", session_id |-> session_id, key |-> key,
                             answer |-> Answer(r)]
            /\ session_rag_data' = r.session_rag_data
            /\ UNCHANGED <<request_session_id, gen_pc, eng_pc, model_calls, turn_tool_calls,
                           tool_results, first_output, stream_rest, stream_fails, emitted,
                           session_weather_data, latest_weather_data, card_tasks,
                           caught_log, response_path_exception, engine_errors, outer_error>>

Next ==
    \/ gen_start /\ UNCHANGED <<pwfVars, cdVars, vsVars, stVars, rqVars, wuVars>>
    \/ eng_raises /\ UNCHANGED <<pwfVars, cdVars, vsVars, stVars, rqVars, wuVars>>
    \/ eng_call_text /\ UNCHANGED <<pwfVars, cdVars, vsVars, stVars, rqVars, wuVars>>
    \/ eng_call_tools /\ UNCHANGED <<pwfVars, cdVars, vsVars, stVars, rqVars, wuVars>>
    \/ eng_execute_weather /\ UNCHANGED <<pwfVars, cdVars, vsVars, stVars, rqVars, wuVars>>
    \/ eng_execute_search /\ UNCHANGED <<pwfVars, cdVars, vsVars, stVars, rqVars, wuVars>>
    \/ eng_followup_call /\ UNCHANGED <<pwfVars, cdVars, vsVars, stVars, rqVars, wuVars>>
    \/ stream_delta /\ UNCHANGED <<pwfVars, cdVars, vsVars, stVars, rqVars, wuVars>>
    \/ stream_raises /\ UNCHANGED <<pwfVars, cdVars, vsVars, stVars, rqVars, wuVars>>
    \/ stream_end /\ UNCHANGED <<pwfVars, cdVars, vsVars, stVars, rqVars, wuVars>>
    \/ gen_final /\ UNCHANGED <<pwfVars, cdVars, vsVars, stVars, rqVars, wuVars>>
    \/ card_task_run /\ UNCHANGED <<pwfVars, cdVars, vsVars, stVars, rqVars, wuVars>>
    \/ poll /\ UNCHANGED <<pwfVars, cdVars, vsVars, stVars, rqVars, wuVars>>

Spec == Init /\ [][Next]_vars

----------------------------------------------------------------------------
\* Claims about the turn

\* the events of the stream that carry text
ContentEvents ==
    SelectSeq(emitted,
              LAMBDA ev : /\ "json" \in DOMAIN ev
                          /\ "choices" \in DOMAIN ev.json
                          /\ "content" \in DOMAIN ev.json.choices[1].delta)

\* the text delivered to the caller: the contents of the emitted chunks, concatenated
DeliveredText ==
    Flatten([n \in 1..Len(ContentEvents) |-> ContentEvents[n].json.choices[1].delta.content])

\* C2: in a turn whose first model call answers without tool calls, that call
\* is the only model call of the turn, and the text delivered to the caller,
\* concatenated over the emitted chunks, is that call's output: at every moment
\* what is delivered plus what is still to deliver is the output, and at the
\* end of the stream what is delivered is the output.
C2_NoToolTurnVerbatim ==
    first_output.kind = "text" =>
        /\ model_calls = 1
        /\ first_output.completed =>
             /\ DeliveredText \o Flatten(stream_rest) = first_output.text
             /\ gen_pc \in {"final", "done"} => DeliveredText = first_output.text

\* a finished no-tool turn whose output reached the caller in several chunks
C2_Witness ==
    /\ gen_pc = "done"
    /\ first_output.kind = "text" /\ first_output.completed
    /\ Len(ContentEvents) >= 2
    /\ Len(first_output.text) >= 3

\* C4: in every scheduling branch handle_rag_function returns without waiting
\* for the card task: the step that schedules a task leaves it pending, leaves
\* the turn in its stream and lets the engine go on to its next tool call or to
\* its follow-up call.
C4_CallbackDoesNotWait ==
    [][Len(card_tasks') > Len(card_tasks) =>
         /\ \A i \in (Len(card_tasks) + 1)..Len(card_tasks') :
              card_tasks'[i].state = "pending"
         /\ gen_pc' = "stream"
         /\ eng_pc' \in {"tools", "followup"}]_vars

\* the stream has emitted text and finished while two card tasks, scheduled in
\* different branches, are still pending
C4_Witness ==
    /\ gen_pc = "done"
    /\ DeliveredText # <<>>
    /\ \E i, j \in 1..Len(card_tasks) :
         /\ card_tasks[i].state = "pending" /\ card_tasks[j].state = "pending"
         /\ card_tasks[i].via = "running_loop" /\ card_tasks[j].via = "thread"

\* an event of the stream that is a chat.completion.chunk
IsChunk(ev) == "json" \in DOMAIN ev /\ "choices" \in DOMAIN ev.json

IsDone(ev) == "literal" \in DOMAIN ev

FinishReason(ev) == ev.json.choices[1].finish_reason

\* C8: no exception of the card path (the scheduling of the card task, the task,
\* the Card Decision Engine it calls) reaches the response path: none leaves a
\* callback, a turn that executed tools emits no error chunk, and its stream
\* runs to the final chunk followed by the [DONE] sentinel, which end the
\* stream unless the logging that follows them fails.
C8_CardFailuresOffResponsePath ==
    /\ response_path_exception = None
    /\ first_output.kind = "tool_calls" =>
         /\ \A n \in 1..Len(emitted) :
              IsChunk(emitted[n]) => FinishReason(emitted[n]) # "error"
         /\ gen_pc = "done" =>
              /\ \E n \in 1..(Len(emitted) - 1) :
                   /\ IsChunk(emitted[n]) /\ FinishReason(emitted[n]) = "stop"
                   /\ IsDone(emitted[n + 1])
                   /\ \A k \in 1..(n - 1) : IsChunk(emitted[k])
                   /\ outer_error = None => n + 1 = Len(emitted)

\* a finished turn in which a scheduling failed and a card task failed
C8_Witness ==
    /\ gen_pc = "done"
    /\ {"schedule", "card_generation"} \subseteq caught_log
    /\ \E i \in 1..Len(card_tasks) : card_tasks[i].state = "done"

----------------------------------------------------------------------------
\* Claims about the failure paths of the turn

HasContent(ev) == IsChunk(ev) /\ "content" \in DOMAIN ev.json.choices[1].delta

Content(ev) == ev.json.choices[1].delta.content

IsErrorObject(ev) == "json" \in DOMAIN ev /\ "error" \in DOMAIN ev.json

\* the apologetic texts of the engine and of generate()
ApologyContents ==
    {ApologyChunks("APIError")[k] : k \in 1..Len(ApologyChunks("APIError"))}
      \cup {error_chunk.choices[1].delta.content}

ApologyEvents ==
    {n \in 1..Len(emitted) : HasContent(emitted[n]) /\ Content(emitted[n]) \in ApologyContents}

\* C11: when a model call of the engine raises, the exception is caught,
\* exactly one apologetic text chunk is delivered, and the turn ends without
\* another model call: the engine is at its end and one call has raised.
C11_SingleApologyChunk ==
    (engine_errors > 0 /\ gen_pc \in {"final", "done"}) =>
        /\ engine_errors = 1
        /\ eng_pc = "end"
        /\ Cardinality(ApologyEvents) = 1

\* an item that reports an error: the error chunk of generate(), its error
\* object, or an apology chunk of the engine
IsErrorItem(ev) ==
    \/ IsChunk(ev) /\ FinishReason(ev) = "error"
    \/ IsErrorObject(ev)
    \/ HasContent(ev) /\ Content(ev) \in ApologyContents

\* a chunk that carries normal response content
IsNormalContent(ev) ==
    /\ HasContent(ev)
    /\ FinishReason(ev) = None
    /\ Content(ev) \notin ApologyContents

\* C12: once an error chunk has been emitted in the stream, no chunk carrying
\* normal response content is emitted after it.
C12_NoContentAfterError ==
    \A n \in 1..Len(emitted) :
        IsErrorItem(emitted[n]) =>
            \A m \in (n + 1)..Len(emitted) : ~IsNormalContent(emitted[m])

\* a finished stream that holds the error chunk of generate()
C12_Witness ==
    /\ gen_pc = "done"
    /\ \E n \in 1..Len(emitted) :
         /\ IsChunk(emitted[n]) /\ FinishReason(emitted[n]) = "error"
         /\ n < Len(emitted)

\* str(e) of the exceptions of the model
RawExceptionMessages == {"APIError", "OSError"}

\* C13: on every failure path what the user receives is prose only: no item of
\* the stream is a JSON error object, and no emitted text holds the raw
\* message of an exception.
C13_ProseOnly ==
    \A n \in 1..Len(emitted) :
        /\ ~IsErrorObject(emitted[n])
        /\ HasContent(emitted[n]) =>
             \A k \in 1..Len(Content(emitted[n])) :
                 Content(emitted[n])[k] \notin RawExceptionMessages

DoneEvents == {n \in 1..Len(emitted) : IsDone(emitted[n])}

ProducedChunks ==
    IF /\ gen_pc = "stream" /\ eng_pc = "streaming"
       /\ stream_rest # <<>> /\ stream_rest' = Tail(stream_rest)
    THEN <<Head(stream_rest)>>
    ELSE <<>>

\* the events the step emits
NewEvents == SubSeq(emitted', Len(emitted) + 1, Len(emitted'))

\* C34: the Turn Coordinator relays the chunks as they are produced: the step
\* that takes a chunk from the Conversation Engine emits it in one envelope
\* when it is not empty and emits nothing when it is empty, before the next
\* chunk is taken; what was emitted before stays as it was, so the contents
\* are emitted in the order produced; and no step emits a content the engine
\* did not hand over in that step, apart from the error chunk.
C34_ChunksRelayedAsProduced ==
    [][/\ Len(emitted') >= Len(emitted)
       /\ SubSeq(emitted', 1, Len(emitted)) = emitted
       /\ LET carried == SelectSeq(NewEvents,
                                   LAMBDA ev : HasContent(ev) /\ ev # SSE(error_chunk))
          IN  /\ [n \in 1..Len(carried) |-> Content(carried[n])]
                    = SelectSeq(ProducedChunks, LAMBDA chunk : chunk # <<>>)
              /\ \A n \in 1..Len(carried) : carried[n] = SSE(content_chunk(Content(carried[n])))
      ]_vars

\* a stream of three deltas, the second of them empty, has been relayed as
\* two content chunks in the order produced
C34_Witness ==
    /\ gen_pc = "done"
    /\ first_output.kind = "text"
    /\ first_output.text = <<"b", "c", "a">>
    /\ Len(ContentEvents) = 2
    /\ Content(ContentEvents[1]) = <<"b", "c">>
    /\ Content(ContentEvents[2]) = <<"a">>

----------------------------------------------------------------------------
\* Claims about the callbacks of the turn

\* the weather tool calls of the turn executed so far whose lookup succeeded
SuccessfulWeatherCalls ==
    {i \in 1..Len(tool_results) :
        /\ turn_tool_calls[i].name = "get_weather"
        /\ "error" \notin DOMAIN tool_results[i].content}

\* C19: once a weather tool call of a turn with a session id has succeeded,
\* the store holds the result of the latest such call as the weather of the
\* session.
C19_WeatherStoredForSession ==
    (Truthy(request_session_id) /\ SuccessfulWeatherCalls # {}) =>
        LET last == CHOOSE i \in SuccessfulWeatherCalls :
                        \A j \in SuccessfulWeatherCalls : j <= i
        IN  /\ request_session_id \in DOMAIN session_weather_data
            /\ session_weather_data[request_session_id] = tool_results[last].content

\* the engine has just executed a knowledge tool call and called back
SearchCallback ==
    /\ Len(tool_results') = Len(tool_results) + 1
    /\ turn_tool_calls[Len(tool_results')].name = "search_conference_knowledge"

\* the retrieval result handed to that callback
CallbackRagData == tool_results'[Len(tool_results')].content

\* the card tasks scheduled by the step
NewCardTasks == SubSeq(card_tasks', Len(card_tasks) + 1, Len(card_tasks'))

\* the store holds a retrieval result under the session
Stored(srd, sid, rag_data) ==
    /\ sid \in DOMAIN srd
    /\ "categorized_results" \in DOMAIN srd[sid]
    /\ srd[sid].categorized_results = Get(rag_data, "categorized_results", EmptyDict)
    /\ srd[sid].query = Get(rag_data, "query", None)

\* the successful retrieval results of the turn so far
TurnRetrievals ==
    {tool_results[i].content : i \in {j \in 1..Len(tool_results) :
        /\ turn_tool_calls[j].name = "search_conference_knowledge"
        /\ Get(tool_results[j].content, "success", FALSE) = TRUE}}

\* C20: a knowledge callback that reports success in a turn with a session id
\* leaves the retrieval result in the store under that session and schedules
\* at most one card task, for that result and that session (none only when
\* the scheduling itself fails and is logged); a callback that reports
\* failure, or a turn without session id, stores nothing and schedules
\* nothing; and whenever a card task runs, a retrieval result of its turn is
\* already in the store under its session.
C20_StoreBeforeSchedule ==
    [][/\ SearchCallback =>
            IF Get(CallbackRagData, "success", FALSE) = TRUE /\ Truthy(request_session_id)
            THEN /\ Stored(session_rag_data', request_session_id, CallbackRagData)
                 /\ \/ /\ NewCardTasks = <<>>
                       /\ "schedule" \in caught_log'
                    \/ /\ Len(NewCardTasks) = 1
                       /\ NewCardTasks[1].state = "pending"
                       /\ NewCardTasks[1].rag_data = CallbackRagData
                       /\ NewCardTasks[1].session_id = request_session_id
            ELSE /\ session_rag_data' = session_rag_data
                 /\ card_tasks' = card_tasks
       /\ \A i \in 1..Len(card_tasks) :
            (card_tasks[i].state = "pending" /\ card_tasks'[i].state = "done") =>
                \E rag_data \in TurnRetrievals :
                    Stored(session_rag_data, card_tasks[i].session_id, rag_data)]_vars

C20_Witness ==
    /\ Len(card_tasks) = 2
    /\ card_tasks[1].state = "pending"
    /\ card_tasks[2].state = "done"
    /\ Stored(session_rag_data, request_session_id, card_tasks[2].rag_data)
    /\ "latest_session" \in DOMAIN session_rag_data[request_session_id]

----------------------------------------------------------------------------
\* Claims about the card records of the store

\* the card records of the store: (session id, key) pairs
CardRecords ==
    {p \in (DOMAIN session_rag_data) \X CardKeys : p[2] \in DOMAIN session_rag_data[p[1]]}

CardRecord(p) == session_rag_data[p[1]][p[2]]

\* the fields card_data of a card of each type is built with
CardDataShape(key) ==
    CASE key = "latest_session" -> {}
      [] key = "latest_speaker" -> {"name", "sessions", "bio"}
      [] key = "latest_topic" -> {"theme", "sessions", "overview"}

\* C21: every record stored under latest_session, latest_speaker or
\* latest_topic of a session holds the four fields card_data, display_reason,
\* confidence and timing, and its card_data is that of the card type of its key.
C21_CardRecordFields ==
    \A p \in CardRecords :
        /\ {"card_data", "display_reason", "confidence", "timing"} \subseteq DOMAIN CardRecord(p)
        /\ CardDataShape(p[2]) \subseteq DOMAIN CardRecord(p).card_data

\* C27: the timing of every card record of the store is one of immediate,
\* after_response, delayed.
C27_TimingValues ==
    \A p \in CardRecords :
        CardRecord(p).timing \in {"immediate", "after_response", "delayed"}

----------------------------------------------------------------------------
\* Progress of the background card tasks.  A coroutine handed to a running
\* loop and a started thread are run by the loop and by the operating system:
\* the step of a card task that can run is taken eventually.

SpecLive == Init /\ [][Next]_vars /\ WF_vars(card_task_run /\ UNCHANGED <<pwfVars, cdVars, vsVars, stVars, rqVars, wuVars>>)

TurnStep ==
    \/ gen_start \/ eng_raises \/ eng_call_text \/ eng_call_tools
    \/ eng_execute_weather \/ eng_execute_search \/ eng_followup_call
    \/ stream_delta \/ stream_raises \/ stream_end \/ gen_final

\* C23: the end of a turn's text stream and the storing of its card decision
\* are not ordered: while a card task handed to the running loop or to a
\* thread is pending, it can run whether the stream has ended or not, and a
\* stream that has not ended can go on whether the task has run or not.
C23_StreamAndCardUnordered ==
    \A i \in 1..Len(card_tasks) :
        (card_tasks[i].state = "pending" /\ card_tasks[i].via \in {"running_loop", "thread"})
            => /\ ENABLED card_task_run
               /\ gen_pc # "done" => ENABLED TurnStep

\* both orders in one turn: the first card task stored its decision while the
\* stream was going on, the second after the stream had ended
C23_Witness ==
    /\ gen_pc = "done"
    /\ Len(card_tasks) = 2
    /\ card_tasks[1].ran = "during_stream"
    /\ card_tasks[2].ran = "after_stream"
    /\ "latest_session" \in DOMAIN session_rag_data[request_session_id]

----------------------------------------------------------------------------
\* Claims about the polling endpoints

\* a poll has just been answered
Polled == last_poll' # last_poll

\* nothing is stored under a key of a session
NothingStored(key, session_id) ==
    \/ session_id \notin DOMAIN session_rag_data
    \/ key \notin DOMAIN session_rag_data[session_id]

\* C15: a poll of a card type (session, speaker or topic) of a session under
\* which no decision of that type is stored, the session being known to the
\* store or not, is answered with the empty sentinel (None) and raises nothing.
C15_EmptyPollReturnsSentinel ==
    [][(Polled /\ NothingStored(last_poll'.key, last_poll'.session_id))
            => last_poll'.answer = [returned |-> "null"]]_vars

C15_Witness ==
    /\ last_poll.kind = "poll"
    /\ last_poll.session_id \in DOMAIN session_rag_data
    /\ "latest_session" \in DOMAIN session_rag_data[last_poll.session_id]
    /\ last_poll.key = "latest_topic"
    /\ last_poll.answer = [returned |-> "null"]

\* C16: a poll is a pure read: it changes nothing in the store, and the same
\* poll made again before any write to the store is answered with the
\* identical payload.
C16_PollIsPureRead ==
    [][Polled =>
          /\ storeVars' = storeVars
          /\ Answer(get_latest(last_poll'.key, last_poll'.session_id, session_rag_data'))
                = last_poll'.answer]_vars

C16_Witness ==
    /\ last_poll.kind = "poll"
    /\ last_poll.answer.returned = "payload"
    /\ session_rag_data[last_poll.session_id][last_poll.key] = last_poll.answer.payload

----------------------------------------------------------------------------
\* Knowledge Provider adapter: VectorSearchTool (vector_search_tool.py).
\* A relevance score is counted in hundredths.  The filters of a call are a
\* dict; the empty dict stands for None as well, the code testing them for
\* truth only.  The speakers property of a stored session is a str or a list:
\* [str |-> s] or [list |-> l].

ProviderErrors == {"ConnectionError", "TimeoutError"}

\* what the Weaviate cluster answers to one query: objects of the
\* collection, a cluster that is not live (lines 81-82), or a timeout of the
\* query
ProviderOutcomes ==
    LET Object1 ==
            [uuid |-> "u1", metadata |-> [score |-> 90],
             properties |-> [title |-> "Quantum sensing", description |-> "d1",
                             session_id |-> "session-1",
                             speakers |-> [list |-> <<"Chen", "Okoye">>],
                             theme |-> "Sensing"]]
        Object2 ==
            [uuid |-> "u2", metadata |-> [score |-> 80],
             properties |-> [title |-> "Noble gas networks", semantic_context |-> "c2",
                             session_id |-> "session-1",
                             speakers |-> [str |-> "Chen"],
                             theme |-> "Sensing"]]
        Object3 ==
            [uuid |-> "u3", metadata |-> [distance |-> 10],
             properties |-> [title |-> "Opening", content |-> "c3"]]
    IN  { [kind |-> "objects", objects |-> <<>>],
          [kind |-> "objects", objects |-> <<Object1, Object2>>],
          [kind |-> "objects", objects |-> <<Object3, Object1>>],
          [kind |-> "not_live"],
          [kind |-> "timeout"] }

\* vector_search_tool.py:71-93: the exception that leaves the method, or None
get_client(outcome) == IF outcome.kind = "not_live" THEN "ConnectionError" ELSE None

\* vector_search_tool.py:132-173
format_result(obj, search_type, collection) ==
    LET properties == obj.properties
        title == Get(properties, "title", "")
        content ==
            CASE collection = "ConferenceChunk" ->
                    Get(properties, "contextualized_content", Get(properties, "content", ""))
              [] collection = "ConferenceSession" ->
                    Get(properties, "semantic_context", Get(properties, "description", ""))
              [] OTHER -> Get(properties, "content", "")
        relevance_score ==
            IF "distance" \in DOMAIN obj.metadata
            THEN (IF obj.metadata.distance > 200 THEN 0
                  ELSE (200 - obj.metadata.distance) \div 2)
            ELSE IF "score" \in DOMAIN obj.metadata THEN obj.metadata.score
            ELSE 0
        kept == DOMAIN properties \
                    {"title", "content", "contextualized_content", "semantic_context"}
    IN  [id |-> obj.uuid,
         title |-> title,
         content |-> content,
         metadata |-> Update([uuid |-> obj.uuid, collection |-> collection,
                              search_type |-> search_type],
                             [k \in kept |-> properties[k]]),
         relevance_score |-> relevance_score,
         collection |-> collection,
         search_type |-> search_type]

\* the body the query methods share: `with self._get_client() as client`, the
\* query of the collection, the formatting of response.objects.  No method
\* has a try of its own.
query_collection(outcome, search_type, collection) ==
    IF get_client(outcome) # None THEN [raised |-> get_client(outcome), value |-> <<>>]
    ELSE IF outcome.kind = "timeout" THEN [raised |-> "TimeoutError", value |-> <<>>]
    ELSE [raised |-> None,
          value |-> [n \in 1..Len(outcome.objects) |->
                        format_result(outcome.objects[n], search_type, collection)]]

\* vector_search_tool.py:175-201
semantic_search(query, collection, filters, outcome) ==
    query_collection(outcome, "semantic", collection)

\* vector_search_tool.py:203-229
keyword_search(query, collection, filters, outcome) ==
    query_collection(outcome, "keyword", collection)

\* vector_search_tool.py:231-261
hybrid_search(query, collection, filters, outcome) ==
    query_collection(outcome, "hybrid", collection)

\* vector_search_tool.py:262-280: the filters are tested inside the with
filtered_search(filters, collection, outcome) ==
    IF get_client(outcome) # None THEN [raised |-> get_client(outcome), value |-> <<>>]
    ELSE IF DOMAIN filters = {} THEN [raised |-> "ValueError", value |-> <<>>]
    ELSE query_collection(outcome, "filtered", collection)

\* vector_search_tool.py:282-318
rag_search(query, collection, filters, outcome) ==
    LET r == query_collection(outcome, "rag", collection)
    IN  IF r.raised # None THEN r
        ELSE [raised |-> None,
              value |-> [search_results |-> r.value, query |-> query,
                         collection |-> collection, success |-> TRUE]]

\* vector_search_tool.py:350-397: the handler of line 395 logs and raises again
search(search_query, outcome) ==
    LET t == search_query.search_type
        r == CASE t = "semantic" ->
                    semantic_search(search_query.query_text, search_query.collection,
                                    search_query.filters, outcome)
               [] t = "keyword" ->
                    keyword_search(search_query.query_text, search_query.collection,
                                   search_query.filters, outcome)
               [] t = "hybrid" ->
                    hybrid_search(search_query.query_text, search_query.collection,
                                  search_query.filters, outcome)
               [] t = "filtered" ->
                    IF DOMAIN search_query.filters = {}
                    THEN [raised |-> "ValueError", value |-> <<>>]
                    ELSE filtered_search(search_query.filters, search_query.collection,
                                         outcome)
               [] t = "rag" ->
                    rag_search(search_query.query_text, search_query.collection,
                               search_query.filters, outcome)
               [] OTHER -> [raised |-> "ValueError", value |-> <<>>]
    IN  [raised |-> r.raised, value |-> r.value,
         logged |-> IF r.raised # None THEN {"Search failed"} ELSE {}]

\* list.sort(key=lambda x: x.relevance_score, reverse=True): stable
RECURSIVE sort_by_relevance(_)
sort_by_relevance(results) ==
    IF results = <<>> THEN <<>>
    ELSE LET x == results[Len(results)]
             sorted == sort_by_relevance(SubSeq(results, 1, Len(results) - 1))
             before == SelectSeq(sorted, LAMBDA y : y.relevance_score >= x.relevance_score)
             after == SelectSeq(sorted, LAMBDA y : y.relevance_score < x.relevance_score)
         IN  before \o <<x>> \o after

\* vector_search_tool.py:447-462: the speakers of one session result
RECURSIVE add_speakers(_, _, _)
add_speakers(speakers, result, acc) ==
    IF speakers = <<>> THEN acc
    ELSE LET speaker == Head(speakers)
             speaker_result ==
                 [id |-> <<"speaker-", speaker>>,
                  title |-> speaker,
                  content |-> <<"Speaker: ", speaker>>,
                  collection |-> "Speaker",
                  search_type |-> "semantic",
                  relevance_score |-> (result.relevance_score * 8) \div 10,
                  metadata |-> [speaker_name |-> speaker, type |-> "speaker"]]
         IN  add_speakers(Tail(speakers), result,
                 IF speaker # "" /\ speaker \notin acc.speaker_names
                 THEN [acc EXCEPT !.speakers = Append(@, speaker_result),
                                  !.speaker_names = @ \cup {speaker}]
                 ELSE acc)

\* vector_search_tool.py:436-476: the loop over session_results
RECURSIVE categorize(_, _)
categorize(session_results, acc) ==
    IF session_results = <<>> THEN acc
    ELSE LET result == Head(session_results)
             session_id == Get(result.metadata, "session_id", "")
             with_session ==
                 IF session_id # "" /\ session_id \notin acc.session_ids
                 THEN [acc EXCEPT !.sessions = Append(@, result),
                                  !.session_ids = @ \cup {session_id}]
                 ELSE acc
             property == Get(result.metadata, "speakers", [list |-> <<>>])
             speakers == IF "str" \in DOMAIN property THEN <<property.str>>
                         ELSE property.list
             with_speakers == add_speakers(speakers, result, with_session)
             theme == Get(result.metadata, "theme", "")
             topic_result ==
                 [id |-> <<"topic-", theme>>,
                  title |-> theme,
                  content |-> <<"Topic: ", theme>>,
                  collection |-> "Topic",
                  search_type |-> "semantic",
                  relevance_score |-> (result.relevance_score * 7) \div 10,
                  metadata |-> [theme |-> theme, type |-> "topic"]]
             with_topic ==
                 IF theme # "" /\ theme \notin with_speakers.topic_themes
                 THEN [with_speakers EXCEPT !.topics = Append(@, topic_result),
                                            !.topic_themes = @ \cup {theme}]
                 ELSE with_speakers
         IN  categorize(Tail(session_results), with_topic)

\* results[category][:5]
FirstFive(results) == SubSeq(results, 1, IF Len(results) < 5 THEN Len(results) ELSE 5)

\* vector_search_tool.py:399-483: there is no try in the method
enhanced_conference_search(query, filters, search_mode, outcome1, outcome2) ==
    LET empty == [sessions |-> <<>>, speakers |-> <<>>, topics |-> <<>>]
        session_results == hybrid_search(query, "ConferenceSession", filters, outcome1)
        chunk_results == hybrid_search(query, "ConferenceChunk", filters, outcome2)
        acc == categorize(session_results.value,
                          [sessions |-> <<>>, speakers |-> <<>>, topics |-> <<>>,
                           session_ids |-> {}, speaker_names |-> {}, topic_themes |-> {}])
    IN  IF search_mode # "comprehensive" THEN [raised |-> None, value |-> empty]
        ELSE IF session_results.raised # None
             THEN [raised |-> session_results.raised, value |-> empty]
        ELSE IF chunk_results.raised # None
             THEN [raised |-> chunk_results.raised, value |-> empty]
        ELSE [raised |-> None,
              value |-> [sessions |-> FirstFive(sort_by_relevance(acc.sessions)),
                         speakers |-> FirstFive(sort_by_relevance(acc.speakers)),
                         topics |-> FirstFive(sort_by_relevance(acc.topics))]]

\* the calls of the adapter: a SearchQuery handed to search(), or the
\* arguments of enhanced_conference_search(), with what the provider answers
\* to each query of the call
SearchCalls ==
    LET SearchTypes == {"semantic", "keyword", "hybrid", "filtered", "rag", "fuzzy"}
        SearchFilters == {EmptyDict, [theme |-> "Sensing"]}
        SearchModes == {"comprehensive", "quick"}
    IN  { [method |-> "search",
           search_query |-> [query_text |-> "quantum", search_type |-> t,
                             collection |-> "ConferenceSession", filters |-> f],
           outcomes |-> <<o>>] :
             t \in SearchTypes, f \in SearchFilters, o \in ProviderOutcomes }
        \cup
        { [method |-> "enhanced_conference_search",
           query |-> "quantum", filters |-> f, search_mode |-> m,
           outcomes |-> <<o1, o2>>] :
             f \in SearchFilters, m \in SearchModes,
             o1 \in ProviderOutcomes, o2 \in ProviderOutcomes }

InitSearch ==
    /\ vs_pc = "start"
    /\ vs_call \in SearchCalls
    /\ vs_out = [raised |-> None]
    /\ PwfIdle /\ CdIdle /\ TurnIdle /\ StoreIdle /\ RequestIdle /\ WarmupIdle

vs_search ==
    /\ vs_pc = "start"
    /\ vs_call.method = "search"
    /\ vs_out' = search(vs_call.search_query, vs_call.outcomes[1])
    /\ vs_pc' = "done"
    /\ UNCHANGED vs_call

vs_enhanced_conference_search ==
    /\ vs_pc = "start"
    /\ vs_call.method = "enhanced_conference_search"
    /\ vs_out' = enhanced_conference_search(vs_call.query, vs_call.filters,
                                            vs_call.search_mode,
                                            vs_call.outcomes[1], vs_call.outcomes[2])
    /\ vs_pc' = "done"
    /\ UNCHANGED vs_call

NextSearch ==
    \/ vs_search /\ UNCHANGED <<pwfVars, cdVars, turnVars, stVars, rqVars, wuVars>>
    \/ vs_enhanced_conference_search /\ UNCHANGED <<pwfVars, cdVars, turnVars, stVars, rqVars, wuVars>>

SpecSearch == InitSearch /\ [][NextSearch]_vars

\* C17: a failure of the Knowledge Provider (a cluster that is not live, a
\* query that times out) does not leave the adapter as an exception: the
\* call returns to its caller.
C17_ProviderFailureStaysInAdapter ==
    vs_pc = "done" => vs_out.raised \notin ProviderErrors

----------------------------------------------------------------------------
\* Concurrent writers of the Session State Store.  generate() is iterated in
\* a worker thread of the server, one per request, and a card task runs on
\* the loop of the server or in a thread of its own: turns of the same or of
\* different sessions and their card tasks write rosa_backend.session_rag_data
\* at the same time, without a lock.  `if session_id not in store:
\* store[session_id] = {}` is a test and an assignment, and the thread can be
\* switched between the two; dict.update and the assignment of one key are
\* single operations of the interpreter.

\* the turn variables a write to the store leaves alone
storeRest ==
    <<request_session_id, gen_pc, eng_pc, model_calls, turn_tool_calls, tool_results,
      first_output, stream_rest, stream_fails, emitted, card_tasks, caught_log,
      response_path_exception, engine_errors, outer_error, last_poll>>

\* two turns, of the same session or of two sessions, each with a successful
\* retrieval, and the card task of each
StoreThreads ==
    LET rag1 == [success |-> TRUE, query |-> "quantum",
                 categorized_results |-> [sessions |-> <<SessionS1>>],
                 total_results |-> [sessions |-> 1]]
        \* the matches of a category are ranked (vector_search_tool.py:478-481)
        rag2(sessions) ==
                [success |-> TRUE, query |-> "noble gas",
                 categorized_results |-> [sessions |-> sessions],
                 total_results |-> [sessions |-> Len(sessions)]]
        thread(kind, pc, sid, rag_data, outcome) ==
            [kind |-> kind, pc |-> pc, session_id |-> sid, rag_data |-> rag_data,
             outcome |-> outcome, absent |-> FALSE,
             \* history of a card task: whether it made a decision, the card
             \* tasks of its session that had made theirs before it decided,
             \* and the memory its agent put into the prompt
             decided |-> FALSE, earlier |-> {}, prompt_memory |-> [embedded |-> FALSE],
             \* history of a turn: what its weather lookup returned
             weather |-> EmptyDict]
    IN  { [t \in {"turn-1", "turn-2", "task-1", "task-2"} |->
             CASE t = "turn-1" -> thread("turn", "weather", "conv-1", rag1, [kind |-> "none"])
               [] t = "turn-2" -> thread("turn", "weather", sid2, rag2(l2), [kind |-> "none"])
               [] t = "task-1" -> thread("task", "unscheduled", "conv-1", rag1, o1)
               [] t = "task-2" -> thread("task", "unscheduled", sid2, rag2(l2), o2)] :
          sid2 \in {"conv-1", "conv-2"}, o1 \in CardTaskOutcomes, o2 \in CardTaskOutcomes,
          l2 \in {<<>>, <<SessionS2>>, <<SessionS3, SessionS2>>} }

InitStore ==
    /\ st_threads \in StoreThreads
    /\ PwfIdle /\ CdIdle /\ TurnIdle /\ SearchIdle /\ RequestIdle /\ WarmupIdle

\* rosa_pattern1_api.py:351-374: the weather callback of a turn
st_weather ==
    \E t \in DOMAIN st_threads, outcome \in TurnWeatherOutcomes :
        /\ st_threads[t].pc = "weather"
        /\ LET w == handle_weather_function([location |-> "Vienna"], outcome,
                                            st_threads[t].session_id,
                                            session_weather_data, latest_weather_data)
           IN  /\ session_weather_data' = w.session_weather_data
               /\ latest_weather_data' = w.latest_weather_data
               /\ st_threads' = [st_threads EXCEPT ![t].pc = "check",
                                                    ![t].weather = w.result]
        /\ UNCHANGED session_rag_data

\* rosa_pattern1_api.py:196 and 114: `if session_id not in session_rag_data`
st_check ==
    \E t \in DOMAIN st_threads :
        /\ st_threads[t].pc = "check"
        /\ LET absent == st_threads[t].session_id \notin DOMAIN session_rag_data
           IN  st_threads' = [st_threads EXCEPT ![t].absent = absent,
                                                ![t].pc = IF absent THEN "create" ELSE "write"]
        /\ UNCHANGED storeVars

\* rosa_pattern1_api.py:197 and 115: `session_rag_data[session_id] = {}`
st_create ==
    \E t \in DOMAIN st_threads :
        /\ st_threads[t].pc = "create"
        /\ session_rag_data' = SetKey(session_rag_data, st_threads[t].session_id, EmptyDict)
        /\ st_threads' = [st_threads EXCEPT ![t].pc = "write"]
        /\ UNCHANGED <<session_weather_data, latest_weather_data>>

\* rosa_pattern1_api.py:199-204, then the scheduling of the card task (391-433)
st_store_rag ==
    \E t \in DOMAIN st_threads :
        /\ st_threads[t].kind = "turn"
        /\ st_threads[t].pc = "write"
        /\ session_rag_data' = store_rag_data_for_session(session_rag_data,
                                                          st_threads[t].session_id,
                                                          st_threads[t].rag_data)
        /\ LET task == IF t = "turn-1" THEN "task-1" ELSE "task-2"
           IN  st_threads' = [st_threads EXCEPT ![t].pc = "done", ![task].pc = "check"]
        /\ UNCHANGED <<session_weather_data, latest_weather_data>>

\* rosa_pattern1_api.py:117-141 and 150-163: the card task stores its decisions
st_store_cards ==
    \E t \in DOMAIN st_threads :
        /\ st_threads[t].kind = "task"
        /\ st_threads[t].pc = "write"
        /\ LET g == generate_cards_async(st_threads[t].rag_data, st_threads[t].session_id,
                                         st_threads[t].outcome, session_rag_data)
           IN  /\ session_rag_data' = g.session_rag_data
               /\ st_threads' =
                    [st_threads EXCEPT
                        ![t].pc = "done",
                        ![t].decided = g.decided,
                        ![t].prompt_memory = g.prompt_memory,
                        ![t].earlier =
                            {u \in DOMAIN st_threads :
                                /\ st_threads[u].decided
                                /\ st_threads[u].session_id = st_threads[t].session_id}]
        /\ UNCHANGED <<session_weather_data, latest_weather_data>>

\* rosa_pattern1_api.py:542-558.  The fallback value None is falsy, as the
\* empty dict is; no statement of the try can raise.
get_latest_weather(session_id, swd, lwd) ==
    IF session_id \in DOMAIN swd THEN swd[session_id]
    ELSE IF lwd # EmptyDict THEN lwd
    ELSE [success |-> FALSE, error |-> "No weather data available"]

\* a frontend polls /latest-weather/{session_id}, at any moment
st_poll_weather ==
    /\ \E session_id \in {"conv-1", "conv-2", "conv-unseen"} :
          last_poll' = [kind |-> "weather", session_id |-> session_id,
                        answer |-> get_latest_weather(session_id, session_weather_data,
                                                      latest_weather_data)]
    /\ UNCHANGED <<request_session_id, gen_pc, eng_pc, model_calls, turn_tool_calls,
                   tool_results, first_output, stream_rest, stream_fails, emitted,
                   card_tasks, caught_log, response_path_exception, engine_errors,
                   outer_error>>
    /\ UNCHANGED <<storeVars, st_threads>>

NextStore ==
    \/ st_weather /\ UNCHANGED <<pwfVars, cdVars, vsVars, storeRest, rqVars, wuVars>>
    \/ st_check /\ UNCHANGED <<pwfVars, cdVars, vsVars, storeRest, rqVars, wuVars>>
    \/ st_create /\ UNCHANGED <<pwfVars, cdVars, vsVars, storeRest, rqVars, wuVars>>
    \/ st_store_rag /\ UNCHANGED <<pwfVars, cdVars, vsVars, storeRest, rqVars, wuVars>>
    \/ st_store_cards /\ UNCHANGED <<pwfVars, cdVars, vsVars, storeRest, rqVars, wuVars>>
    \/ st_poll_weather /\ UNCHANGED <<pwfVars, cdVars, vsVars, rqVars, wuVars>>

SpecStore == InitStore /\ [][NextStore]_vars

\* C25: a session record is created once and updated in place: under every
\* interleaving of the turns and card tasks of a session, the record of a
\* session stays and no field written to it is lost.
C25_FieldsNeverLost ==
    [][\A sid \in DOMAIN session_rag_data :
          /\ sid \in DOMAIN session_rag_data'
          /\ DOMAIN session_rag_data[sid] \subseteq DOMAIN session_rag_data'[sid]]_vars

\* the session ids whose record, weather or retrieval and cards, a step changes
ChangedSessions ==
    {sid \in DOMAIN session_rag_data \cup DOMAIN session_rag_data' :
        \/ sid \notin DOMAIN session_rag_data
        \/ sid \notin DOMAIN session_rag_data'
        \/ session_rag_data'[sid] # session_rag_data[sid]}
    \cup
    {sid \in DOMAIN session_weather_data \cup DOMAIN session_weather_data' :
        \/ sid \notin DOMAIN session_weather_data
        \/ sid \notin DOMAIN session_weather_data'
        \/ session_weather_data'[sid] # session_weather_data[sid]}

\* the session ids of the threads that take a step
ActingSessions ==
    {st_threads[t].session_id : t \in {u \in DOMAIN st_threads :
                                          st_threads'[u].pc # st_threads[u].pc}}

\* C26: a write made for a turn of a session (weather callback, retrieval
\* store, card task, fallback of the card task) changes the record of that
\* session only: the weather, retrieval and card fields of every other
\* session are as before.
C26_WritesScopedToSession ==
    [][ChangedSessions \subseteq ActingSessions]_vars

\* both sessions have their retrieval result and a card, each its own
C26_Witness ==
    /\ \A t \in DOMAIN st_threads : st_threads[t].pc = "done"
    /\ DOMAIN session_rag_data = {"conv-1", "conv-2"}
    /\ session_rag_data["conv-1"].query = "quantum"
    /\ session_rag_data["conv-2"].query = "noble gas"
    /\ "latest_session" \in DOMAIN session_rag_data["conv-1"]
    /\ "latest_session" \in DOMAIN session_rag_data["conv-2"]

\* the card task that completes in the step
CompletingTasks ==
    {t \in DOMAIN st_threads :
        st_threads[t].kind = "task" /\ st_threads[t].pc = "write" /\ st_threads'[t].pc = "done"}

\* card generation fails: an exception leaves the try of generate_cards_async
\* (rosa_pattern1_api.py:67-143)
CardGenerationFailed(task) ==
    \/ task.outcome.kind = "init_error"
    \/ analyze_conversation_for_cards(Get(task.rag_data, "categorized_results", EmptyDict),
                                      task.outcome, EmptyDict, task.session_id).raised # None

\* the record of the fallback heuristic
IsFallbackRecord(entry) ==
    /\ "latest_session" \in DOMAIN entry
    /\ "session" \in DOMAIN entry.latest_session

\* C31: the fallback heuristic runs only when card generation has failed: a
\* card task that has not failed leaves no fallback record of its own.  A card
\* task that has failed stores under latest_session of its session the
\* top-ranked session match, the one whose relevance score is the highest among
\* the session matches of its retrieval result, and changes nothing else; when
\* the retrieval result has no session match, it leaves the store unchanged.
C31_FallbackStoresTopSession ==
    [][\A t \in CompletingTasks :
          LET task == st_threads[t]
              sid == task.session_id
              sessions == Get(Get(task.rag_data, "categorized_results", EmptyDict),
                              "sessions", <<>>)
              before == Get(session_rag_data, sid, EmptyDict)
              after == Get(session_rag_data', sid, EmptyDict)
          IN  IF ~CardGenerationFailed(task)
              THEN IsFallbackRecord(after) =>
                      /\ IsFallbackRecord(before)
                      /\ after.latest_session = before.latest_session
              ELSE IF sessions = <<>>
              THEN session_rag_data' = session_rag_data
              ELSE /\ IsFallbackRecord(after)
                   /\ \E i \in DOMAIN sessions : after.latest_session.session = sessions[i]
                   /\ \A i \in DOMAIN sessions :
                         after.latest_session.session.relevance_score
                            >= sessions[i].relevance_score
                   /\ session_rag_data' =
                         SetKey(session_rag_data, sid,
                                SetKey(before, "latest_session", after.latest_session))
      ]_vars

\* a failed card task over two session matches has stored the first of them,
\* and a failed card task without session match has stored nothing
C31_Witness ==
    \E t \in DOMAIN st_threads :
        /\ st_threads[t].kind = "task" /\ st_threads[t].pc = "done"
        /\ st_threads[t].outcome.kind = "init_error"
        /\ st_threads[t].session_id = "conv-2"
        /\ st_threads[t].rag_data.categorized_results.sessions = <<SessionS3, SessionS2>>
        /\ IsFallbackRecord(session_rag_data["conv-2"])
        /\ session_rag_data["conv-2"].latest_session.session = SessionS3

\* the weather lookups made so far by the turns of a session
LookedUpFor(session_id) ==
    {st_threads[t].weather : t \in {u \in DOMAIN st_threads :
        /\ st_threads[u].kind = "turn"
        /\ st_threads[u].session_id = session_id
        /\ st_threads[u].pc # "weather"}}

CardField(srd, sid, key) ==
    LET entry == Get(srd, sid, EmptyDict)
    IN  [k \in {key} \cap DOMAIN entry |-> entry[k]]

\* the card types a card task yields: those of the cards its decision
\* resolves, or the session card of the fallback when the generation failed
YieldedKeys(task) ==
    LET sessions == RagSessions(Get(task.rag_data, "categorized_results", EmptyDict))
        out == analyze_conversation_for_cards(
                   Get(task.rag_data, "categorized_results", EmptyDict),
                   task.outcome, EmptyDict, task.session_id).out
    IN  IF CardGenerationFailed(task)
        THEN (IF sessions = <<>> THEN {} ELSE {"latest_session"})
        ELSE {k \in CardKeys : \E i \in DOMAIN out :
                  k = CASE out[i].card_type = "session" -> "latest_session"
                        [] out[i].card_type = "speaker" -> "latest_speaker"
                        [] out[i].card_type = "topic" -> "latest_topic"
                        [] OTHER -> None}

\* C33: the card fields of a session are written by its card tasks only, and
\* only for the card types the task yields: a step that stores a retrieval
\* result or weather, and a card task whose decision yields no card of a type
\* (cards not to be shown, every proposal dropped, failure inside the
\* decision), leave the latest_session, latest_speaker and latest_topic of
\* the session as they were.
C33_CardFieldsWrittenByCardTaskOnly ==
    [][\A sid \in {"conv-1", "conv-2"}, key \in CardKeys :
          CardField(session_rag_data', sid, key) # CardField(session_rag_data, sid, key)
          => \E t \in CompletingTasks :
                /\ st_threads[t].session_id = sid
                /\ key \in YieldedKeys(st_threads[t])
      ]_vars

\* the cards the decision model proposed to a card task
ProposalsOf(task) ==
    IF task.outcome.kind = "json" THEN Get(task.outcome.value, "cards", <<>>) ELSE <<>>

\* the CardDecisions the decision of a card task yields
YieldedDecisions(task) ==
    analyze_conversation_for_cards(Get(task.rag_data, "categorized_results", EmptyDict),
                                   task.outcome, EmptyDict, task.session_id).out

StoreKey(card_type) ==
    CASE card_type = "session" -> "latest_session"
      [] card_type = "speaker" -> "latest_speaker"
      [] card_type = "topic" -> "latest_topic"
      [] OTHER -> None

\* C36: a decision never yields more CardDecisions than the model proposed
\* cards: each CardDecision comes from a proposal of its own, of its type and
\* with its display reason, and the CardDecisions follow the order of their
\* proposals.  When the decision of a card task yields several cards of one
\* type, the record the task leaves in the store for that type is made of the
\* last card of that type in the list.
C36_AtMostOnePerProposalLastWins ==
    [][\A t \in CompletingTasks :
          LET task == st_threads[t]
              cards == ProposalsOf(task)
              out == YieldedDecisions(task)
              after == Get(session_rag_data', task.session_id, EmptyDict)
          IN  ~CardGenerationFailed(task) =>
                /\ Len(out) <= Len(cards)
                /\ \E f \in [DOMAIN out -> DOMAIN cards] :
                      /\ \A i, j \in DOMAIN out : i < j => f[i] < f[j]
                      /\ \A i \in DOMAIN out :
                            /\ out[i].card_type = Get(cards[f[i]], "type", None)
                            /\ out[i].display_reason = Get(cards[f[i]], "display_reason", "")
                            /\ out[i].timing = Get(cards[f[i]], "timing", "immediate")
                /\ \A i \in DOMAIN out :
                      (\A j \in DOMAIN out : j > i => out[j].card_type # out[i].card_type)
                      => /\ StoreKey(out[i].card_type) \in DOMAIN after
                         /\ after[StoreKey(out[i].card_type)] =
                               [card_data |-> out[i].card_data,
                                display_reason |-> out[i].display_reason,
                                confidence |-> out[i].confidence,
                                timing |-> out[i].timing]
      ]_vars

\* a card task whose decision yielded two session cards has completed, and the
\* store of its session holds the second of them
C36_Witness ==
    \E t \in DOMAIN st_threads :
        /\ st_threads[t].kind = "task" /\ st_threads[t].pc = "done"
        /\ Len(YieldedDecisions(st_threads[t])) = 2
        /\ YieldedDecisions(st_threads[t])[1].card_type = "session"
        /\ YieldedDecisions(st_threads[t])[2].card_type = "session"
        /\ YieldedDecisions(st_threads[t])[1].card_data = SessionS3
        /\ "latest_session" \in DOMAIN session_rag_data[st_threads[t].session_id]
        /\ session_rag_data[st_threads[t].session_id].latest_session.card_data = SessionS2
        /\ session_rag_data[st_threads[t].session_id].latest_session.timing = "delayed"

\* C28: the memory of the Card Decision Engine is kept per session across
\* turns: when a card task decides for a session for which card tasks of
\* earlier turns have made their decisions, the prompt of its decision embeds
\* the memory of the session, with one record for each of those decisions.
C28_MemoryPersistedAcrossTurns ==
    \A t \in DOMAIN st_threads :
        (st_threads[t].pc = "done" /\ st_threads[t].earlier # {}) =>
            /\ st_threads[t].prompt_memory.embedded
            /\ Len(st_threads[t].prompt_memory.memory.decision_history)
                  >= Cardinality(st_threads[t].earlier)

----------------------------------------------------------------------------
\* The head of chat_completions.generate (rosa_pattern1_api.py:332-344): the
\* message list of the request is split into the current user message and the
\* conversation history, the two arguments handed to the Conversation Engine.
\* A message is a dict with its role and its content.

\* the message lists of a request (rosa_pattern1_api.py:311)
RequestMessageLists ==
    LET Roles == {"system", "user", "assistant"}
        Contents == {"hello", "more"}
    IN  UNION {[1..n -> [role : Roles, content : Contents]] : n \in 0..MaxMessages}

\* rosa_pattern1_api.py:334-340: the loop leaves in user_message the content of
\* the last message of role user, "" when there is none
last_user_content(msgs) ==
    LET users == {i \in DOMAIN msgs : msgs[i].role = "user"}
    IN  IF users = {} THEN ""
        ELSE msgs[CHOOSE i \in users : \A j \in users : j <= i].content

\* rosa_pattern1_api.py:336-344: every message is appended to the history, and
\* the last one is cut off when its role is user
history_of(msgs) ==
    IF msgs # <<>> /\ msgs[Len(msgs)].role = "user"
    THEN SubSeq(msgs, 1, Len(msgs) - 1)
    ELSE msgs

\* the turn the Conversation Engine builds from its two arguments: the history
\* followed by the new user message
ConversationTurn(um, history) ==
    history \o <<[role |-> "user", content |-> um]>>

InitRequest ==
    /\ rq_pc = "start"
    /\ messages \in RequestMessageLists
    /\ user_message = ""
    /\ conversation_history = <<>>
    /\ PwfIdle /\ CdIdle /\ TurnIdle /\ SearchIdle /\ StoreIdle /\ WarmupIdle

\* rosa_pattern1_api.py:332-344
gen_extract ==
    /\ rq_pc = "start"
    /\ rq_pc' = "extracted"
    /\ user_message' = last_user_content(messages)
    /\ conversation_history' = history_of(messages)
    /\ UNCHANGED messages

NextRequest == gen_extract /\ UNCHANGED <<pwfVars, cdVars, turnVars, vsVars, stVars, wuVars>>

SpecRequest == InitRequest /\ [][NextRequest]_vars

\* how often a message stands in a list
Occurrences(m, msgs) == Cardinality({i \in DOMAIN msgs : msgs[i] = m})

\* C30: for every request message list with a user message, the turn handed to
\* the Conversation Engine (the history followed by the new user message) ends
\* with the current user message and holds each request message as often as the
\* request does, none duplicated and none dropped, whatever the role of the
\* last request message.
C30_TurnHoldsEachMessageOnce ==
    (rq_pc = "extracted" /\ \E i \in DOMAIN messages : messages[i].role = "user") =>
        LET turn == ConversationTurn(user_message, conversation_history)
        IN  /\ turn[Len(turn)].content = user_message
            /\ \A i \in DOMAIN turn : Occurrences(turn[i], turn) = Occurrences(turn[i], messages)
            /\ \A i \in DOMAIN messages : Occurrences(messages[i], turn) = Occurrences(messages[i], messages)

----------------------------------------------------------------------------
\* Backend warmup (rosa_pattern1_api.py:224-243): the process is started as a
\* script, which calls warmup_backend() before it serves (line 625), and every
\* request to /chat/completions begins with `if not _warmed_up:
\* warmup_backend()` (lines 282-283).  chat_completions is a coroutine of the
\* one event loop of the process and warmup_backend has no await: the test of
\* the flag and the warmup are one step.

\* what the try of warmup_backend meets (lines 232-241): the iteration of
\* process_conversation_stream("warmup", []) delivers a first chunk, ends
\* without a chunk, or an exception leaves it (with the signature of
\* Agent1.py:100 the call itself raises TypeError)
WarmupOutcomes == {"chunk", "exhausted", "raises"}

\* a warmup whose flag is set whatever the try has met
warmup_backend_flagging_failure(flag, outcome) ==
    IF flag
    THEN [warmed_up |-> flag, outcome |-> "skipped", raised |-> None, logged |-> <<>>]
    ELSE [warmed_up |-> TRUE, outcome |-> outcome, raised |-> None,
          logged |-> <<"warmup_start",
                       IF outcome = "raises" THEN "warmup_failed" ELSE "warmup_complete">>]

\* rosa_pattern1_api.py:227-243
warmup_backend(flag, outcome) ==
    IF flag
    THEN [warmed_up |-> flag, outcome |-> "skipped", raised |-> None, logged |-> <<>>]
    ELSE IF outcome = "raises"
    THEN \* except Exception of line 242: logged, not raised again
         [warmed_up |-> flag, outcome |-> outcome, raised |-> None,
          logged |-> <<"warmup_start", "warmup_failed">>]
    ELSE [warmed_up |-> TRUE, outcome |-> outcome, raised |-> None,
          logged |-> <<"warmup_start", "warmup_complete">>]

InitWarmup ==
    /\ wu_pc = "boot"
    /\ warmed_up = FALSE
    /\ wu_log = <<>>
    /\ PwfIdle /\ CdIdle /\ TurnIdle /\ SearchIdle /\ StoreIdle /\ RequestIdle

\* rosa_pattern1_api.py:625: warmup_backend() of the script, before uvicorn.run
wu_main ==
    /\ wu_pc = "boot"
    /\ \E outcome \in WarmupOutcomes :
          LET w == warmup_backend(warmed_up, outcome)
          IN  /\ warmed_up' = w.warmed_up
              /\ wu_log' = Append(wu_log, [by |-> "main", entered |-> TRUE,
                                            warmup |-> w.outcome, raised |-> w.raised,
                                            session_id |-> None])
    /\ wu_pc' = "serving"

\* rosa_pattern1_api.py:280-289: the head of chat_completions, the warmup on
\* the first request and the session id of the request headers
wu_request ==
    /\ wu_pc = "serving"
    /\ Len(wu_log) <= MaxRequests
    /\ \E outcome \in WarmupOutcomes,
          headers \in {EmptyDict, ("X-Session-ID" :> "conv-1"),
                       ("conversation-id" :> "conv-2" @@ "conversation_id" :> "conv-3")} :
          LET w == IF ~warmed_up THEN warmup_backend(warmed_up, outcome)
                   ELSE [warmed_up |-> warmed_up, outcome |-> "skipped", raised |-> None]
              session_id == Or(Or(Get(headers, "X-Session-ID", None),
                                  Get(headers, "conversation-id", None)),
                               Get(headers, "conversation_id", None))
          IN  /\ warmed_up' = w.warmed_up
              /\ wu_log' = Append(wu_log, [by |-> "request", entered |-> ~warmed_up,
                                            warmup |-> w.outcome, raised |-> w.raised,
                                            session_id |-> session_id])
    /\ UNCHANGED wu_pc

NextWarmup ==
    \/ wu_main /\ UNCHANGED <<pwfVars, cdVars, turnVars, vsVars, stVars, rqVars>>
    \/ wu_request /\ UNCHANGED <<pwfVars, cdVars, turnVars, vsVars, stVars, rqVars>>

SpecWarmup == InitWarmup /\ [][NextWarmup]_vars

\* the warmups that called the Conversation Engine, and those that succeeded
WarmupCalls(log) == {i \in DOMAIN log : log[i].warmup # "skipped"}
WarmupSuccesses(log) == {i \in DOMAIN log : log[i].warmup \in {"chunk", "exhausted"}}

\* C37: the backend is warmed up at most once per process: at most one warmup
\* succeeds; once one has succeeded the flag stays set and no later start or
\* request calls the Conversation Engine for a warmup; a warmup that fails
\* leaves the flag unset and raises nothing into its caller, and every request
\* that finds the flag unset attempts the warmup again.
C37_WarmupAtMostOnce ==
    [][/\ warmed_up => warmed_up'
       /\ Cardinality(WarmupSuccesses(wu_log')) <= 1
       /\ warmed_up <=> WarmupSuccesses(wu_log) # {}
       /\ wu_log' # wu_log =>
            LET e == wu_log'[Len(wu_log')]
            IN  /\ warmed_up => e.warmup = "skipped"
                /\ ~warmed_up => e.warmup # "skipped"
                /\ e.warmup = "raises" => ~warmed_up'
                /\ e.raised = None
      ]_vars

\* the warmup of the start and the one of the first request have failed, the
\* one of the second request has succeeded and the third request has made none
C37_Witness ==
    /\ Len(wu_log) = 4
    /\ wu_log[1].by = "main" /\ wu_log[1].warmup = "raises"
    /\ wu_log[2].by = "request" /\ wu_log[2].warmup = "raises"
    /\ wu_log[3].warmup = "chunk"
    /\ wu_log[4].warmup = "skipped"
    /\ warmed_up

====
